---- MODULE Spec2Model ----
(***************************************************************************)
(* Model of the spreadsheet rule scripts of dlp-audit-file-uploader:       *)
(*   clean_nfast_rules.py, combine_groups_ips.py,                          *)
(*   combine_groups_ips_string.py                                          *)
(* and of the IP/subnet reconciliation pipeline (Entry Classifier,         *)
(* Layered Lookup Index, Record Enricher, Aggregator) of spec.md section 4.*)
(*                                                                         *)
(* Text is modelled at two levels.  A Python str that the code inspects    *)
(* character by character (regular expressions, suffix stripping) is a     *)
(* sequence of one-character strings.  The text of a spreadsheet cell is   *)
(* a sequence of lexemes (brackets, commas, quoted strings, numbers, bare  *)
(* words, whitespace), which is the level at which ast.literal_eval,       *)
(* str(list), strip(), rstrip(']') and lstrip('[') act.                    *)
(***************************************************************************)
EXTENDS Integers, Sequences, FiniteSets, TLC

(***************************************************************************)
(* Bounds of the model.                                                    *)
(***************************************************************************)
MaxRows == 2
MaxCellLen == 3
MaxListLen == 2
MaxTokens == 2
MaxTokenLen == 3

(***************************************************************************)
(* Characters and character strings.                                       *)
(***************************************************************************)
Digits == {"0", "1", "2", "3", "4", "5", "6", "7", "8", "9"}

DigitVal(c) ==
    CASE c = "0" -> 0 [] c = "1" -> 1 [] c = "2" -> 2 [] c = "3" -> 3
      [] c = "4" -> 4 [] c = "5" -> 5 [] c = "6" -> 6 [] c = "7" -> 7
      [] c = "8" -> 8 [] c = "9" -> 9

WhiteChars == {" "}

RECURSIVE LStripChars(_)
LStripChars(cs) ==
    IF cs # <<>> /\ Head(cs) \in WhiteChars THEN LStripChars(Tail(cs)) ELSE cs

RECURSIVE RStripChars(_)
RStripChars(cs) ==
    IF cs # <<>> /\ cs[Len(cs)] \in WhiteChars
    THEN RStripChars(SubSeq(cs, 1, Len(cs) - 1))
    ELSE cs

\* str.strip()
StripChars(cs) == RStripChars(LStripChars(cs))

RECURSIVE JoinSeqs(_, _)
JoinSeqs(seqs, sep) ==
    IF seqs = <<>> THEN <<>>
    ELSE IF Len(seqs) = 1 THEN seqs[1]
    ELSE seqs[1] \o sep \o JoinSeqs(Tail(seqs), sep)

(***************************************************************************)
(* Python values: k is the type, v the characters of a str or a number,    *)
(* items the elements of a container (a dict holds key, value, key, ...).  *)
(***************************************************************************)
StrVal(cs) == [k |-> "str", v |-> cs, items |-> <<>>]
NumVal(cs) == [k |-> "num", v |-> cs, items |-> <<>>]
ListVal(xs) == [k |-> "list", v |-> <<>>, items |-> xs]
TupleVal(xs) == [k |-> "tuple", v |-> <<>>, items |-> xs]
DictVal(xs) == [k |-> "dict", v |-> <<>>, items |-> xs]
SetVal(xs) == [k |-> "set", v |-> <<>>, items |-> xs]
NanVal == [k |-> "nan", v |-> <<>>, items |-> <<>>]

\* a float literal too large for a float is the float inf, which str()
\* writes as the name inf
OverflowText == <<"1", "e", "9", "9", "9">>
InfVal == [k |-> "inf", v |-> <<"i", "n", "f">>, items |-> <<>>]
NumberOf(cs) == IF cs = OverflowText THEN InfVal ELSE NumVal(cs)

RECURSIVE Hashable(_)
Hashable(x) ==
    CASE x.k \in {"str", "num", "nan", "inf"} -> TRUE
      [] x.k = "tuple" -> \A i \in 1..Len(x.items) : Hashable(x.items[i])
      [] OTHER -> FALSE

(***************************************************************************)
(* Lexemes of a cell's text.                                               *)
(***************************************************************************)
Lx(t) == [t |-> t, v |-> <<>>]
LB == Lx("lb")
RB == Lx("rb")
LP == Lx("lp")
RP == Lx("rp")
LC == Lx("lc")
RC == Lx("rc")
COMMA == Lx("comma")
COLON == Lx("colon")
WS == Lx("ws")
StrLx(cs) == [t |-> "str", v |-> cs]
NumLx(cs) == [t |-> "num", v |-> cs]
WordLx(cs) == [t |-> "word", v |-> cs]

RECURSIVE SkipWs(_)
SkipWs(ts) == IF ts # <<>> /\ Head(ts).t = "ws" THEN SkipWs(Tail(ts)) ELSE ts

RECURSIVE RSkipWs(_)
RSkipWs(ts) ==
    IF ts # <<>> /\ ts[Len(ts)].t = "ws"
    THEN RSkipWs(SubSeq(ts, 1, Len(ts) - 1))
    ELSE ts

\* str.strip() on the text of a cell
StripText(ts) == RSkipWs(SkipWs(ts))

(***************************************************************************)
(* repr()/str() of a value, as characters and as lexemes.                  *)
(***************************************************************************)
RECURSIVE ReprChars(_)
RECURSIVE ReprItems(_)
ReprItems(xs) ==
    JoinSeqs([i \in 1..Len(xs) |-> ReprChars(xs[i])], <<",", " ">>)

RECURSIVE ReprPairs(_)
ReprPairs(xs) ==
    IF Len(xs) < 2 THEN <<>>
    ELSE ReprChars(xs[1]) \o <<":", " ">> \o ReprChars(xs[2])
         \o (IF Len(xs) > 2 THEN <<",", " ">> ELSE <<>>)
         \o ReprPairs(SubSeq(xs, 3, Len(xs)))

ReprChars(x) ==
    CASE x.k = "str" -> <<"'">> \o x.v \o <<"'">>
      [] x.k = "num" -> x.v
      [] x.k = "nan" -> <<"n", "a", "n">>
      [] x.k = "inf" -> x.v
      [] x.k = "list" -> <<"[">> \o ReprItems(x.items) \o <<"]">>
      [] x.k = "tuple" ->
            <<"(">> \o ReprItems(x.items)
            \o (IF Len(x.items) = 1 THEN <<",">> ELSE <<>>) \o <<")">>
      [] x.k = "set" -> <<"{">> \o ReprItems(x.items) \o <<"}">>
      [] x.k = "dict" -> <<"{">> \o ReprPairs(x.items) \o <<"}">>

\* str(x): a str is itself, everything else is its repr
StrOf(x) == IF x.k = "str" THEN x.v ELSE ReprChars(x)

RECURSIVE ReprLex(_)
RECURSIVE ReprLexItems(_)
ReprLexItems(xs) ==
    JoinSeqs([i \in 1..Len(xs) |-> ReprLex(xs[i])], <<COMMA, WS>>)

RECURSIVE ReprLexPairs(_)
ReprLexPairs(xs) ==
    IF Len(xs) < 2 THEN <<>>
    ELSE ReprLex(xs[1]) \o <<COLON, WS>> \o ReprLex(xs[2])
         \o (IF Len(xs) > 2 THEN <<COMMA, WS>> ELSE <<>>)
         \o ReprLexPairs(SubSeq(xs, 3, Len(xs)))

ReprLex(x) ==
    CASE x.k = "str" -> <<StrLx(x.v)>>
      [] x.k = "num" -> <<NumLx(x.v)>>
      [] x.k = "nan" -> <<WordLx(<<"n", "a", "n">>)>>
      [] x.k = "inf" -> <<WordLx(x.v)>>
      [] x.k = "list" -> <<LB>> \o ReprLexItems(x.items) \o <<RB>>
      [] x.k = "tuple" ->
            <<LP>> \o ReprLexItems(x.items)
            \o (IF Len(x.items) = 1 THEN <<COMMA>> ELSE <<>>) \o <<RP>>
      [] x.k = "set" -> <<LC>> \o ReprLexItems(x.items) \o <<RC>>
      [] x.k = "dict" -> <<LC>> \o ReprLexPairs(x.items) \o <<RC>>

(***************************************************************************)
(* ast.literal_eval on the text of a cell: a parser of Python literals     *)
(* (str, number, list, tuple, dict, set), run as a pushdown machine.  A    *)
(* configuration holds the text left, the stack of open displays, the      *)
(* value just completed and st: "value" (a value or a closing bracket is   *)
(* expected), "after" (a value was completed), "done" or "fail", which     *)
(* stands for the exception literal_eval raises (SyntaxError, ValueError,  *)
(* TypeError).                                                             *)
(***************************************************************************)
Opener == {"lb", "lp", "lc"}
CloserOf(t) == CASE t = "lb" -> "rb" [] t = "lp" -> "rp" [] t = "lc" -> "rc"

\* an open display: its opening lexeme, the elements so far, whether a comma
\* was seen, and for a brace: mode "unknown", "dict" or "set", the pending
\* key of a dict entry and whether the value of that key is being read
NewFrame(t) ==
    [open |-> t, items |-> <<>>, comma |-> FALSE, mode |-> "unknown",
     haskey |-> FALSE, key |-> NanVal]

Config(ts, stack, st, val) == [ts |-> ts, stack |-> stack, st |-> st, val |-> val]
FailConfig == Config(<<>>, <<>>, "fail", NanVal)

Top(stack) == stack[Len(stack)]
Pop(stack) == SubSeq(stack, 1, Len(stack) - 1)
ReplaceTop(stack, f) == Append(Pop(stack), f)

AllHashable(xs) == \A i \in 1..Len(xs) : Hashable(xs[i])
DictKeysHashable(xs) == \A i \in 1..Len(xs) : (i % 2 = 1) => Hashable(xs[i])

\* the value of a display that closes with the elements xs
Built(f, xs) ==
    CASE f.open = "lb" -> [ok |-> TRUE, val |-> ListVal(xs)]
      [] f.open = "lp" ->
            IF Len(xs) = 1 /\ ~f.comma
            THEN [ok |-> TRUE, val |-> xs[1]]
            ELSE [ok |-> TRUE, val |-> TupleVal(xs)]
      [] f.open = "lc" /\ f.mode = "set" ->
            [ok |-> AllHashable(xs), val |-> SetVal(xs)]
      [] OTHER -> [ok |-> DictKeysHashable(xs), val |-> DictVal(xs)]

CloseWith(c, rest, b) ==
    IF b.ok THEN Config(rest, Pop(c.stack), "after", b.val) ELSE FailConfig

CloseFrame(c, rest, xs) == CloseWith(c, rest, Built(Top(c.stack), xs))

\* a value, or the closing bracket of an empty display or after a comma
StepValue(c) ==
    LET s == SkipWs(c.ts) IN
    IF s = <<>> THEN FailConfig
    ELSE LET h == Head(s) IN
         IF h.t = "str" THEN Config(Tail(s), c.stack, "after", StrVal(h.v))
         ELSE IF h.t = "num" THEN Config(Tail(s), c.stack, "after", NumberOf(h.v))
         ELSE IF h.t \in Opener
              THEN Config(Tail(s), Append(c.stack, NewFrame(h.t)), "value", NanVal)
         ELSE IF /\ c.stack # <<>>
                 /\ h.t = CloserOf(Top(c.stack).open)
                 /\ ~Top(c.stack).haskey
              THEN CloseFrame(c, Tail(s), Top(c.stack).items)
         ELSE FailConfig

\* what follows a completed value: the end, a comma, a colon or a closing
\* bracket
StepAfter(c) ==
    LET s == SkipWs(c.ts) IN
    IF c.stack = <<>> THEN (IF s = <<>> THEN Config(<<>>, <<>>, "done", c.val) ELSE FailConfig)
    ELSE IF s = <<>> THEN FailConfig
    ELSE LET h == Head(s)
             f == Top(c.stack)
             isDict == f.open = "lc" /\ f.mode = "dict"
             xs == IF isDict THEN f.items \o <<f.key, c.val>> ELSE Append(f.items, c.val)
         IN IF f.open = "lc" /\ f.mode # "set" /\ ~f.haskey
            THEN \* a key of a dict, or the first element of a set
                 IF h.t = "colon"
                 THEN Config(Tail(s),
                        ReplaceTop(c.stack, [f EXCEPT !.mode = "dict", !.haskey = TRUE,
                                                      !.key = c.val]),
                        "value", NanVal)
                 ELSE IF f.mode = "dict" THEN FailConfig
                 ELSE IF h.t = "comma"
                 THEN Config(Tail(s),
                        ReplaceTop(c.stack, [f EXCEPT !.mode = "set",
                                                      !.items = Append(@, c.val)]),
                        "value", NanVal)
                 ELSE IF h.t = "rc"
                 THEN CloseFrame([c EXCEPT !.stack = ReplaceTop(c.stack,
                                                        [f EXCEPT !.mode = "set"])],
                                 Tail(s), <<c.val>>)
                 ELSE FailConfig
            ELSE IF h.t = "comma"
                 THEN Config(Tail(s),
                        ReplaceTop(c.stack, [f EXCEPT !.items = xs, !.comma = TRUE,
                                                      !.haskey = FALSE]),
                        "value", NanVal)
            ELSE IF h.t = CloserOf(f.open)
                 THEN CloseFrame(c, Tail(s), xs)
            ELSE FailConfig

ParseStep(c) == IF c.st = "value" THEN StepValue(c) ELSE StepAfter(c)

RECURSIVE ParseRun(_)
ParseRun(c) == IF c.st \in {"done", "fail"} THEN c ELSE ParseRun(ParseStep(c))

\* ast.literal_eval(text): the whole text must be one literal
ParseOutcome(c) == [ok |-> c.st = "done", val |-> c.val]

literal_eval(ts) == ParseOutcome(ParseRun(Config(ts, <<>>, "value", NanVal)))

(***************************************************************************)
(* Cell values.  A cell read from the workbook is NaN, a number or text;   *)
(* parse_list_string also accepts an actual list.                          *)
(***************************************************************************)
TextCell(ts) == [k |-> "text", v |-> ts, items |-> <<>>]

\* str(s) of a cell, as the text literal_eval receives
CellStr(s) == IF s.k = "text" THEN s.v ELSE ReprLex(s)

\* pd.isna(s) for a scalar cell
IsNa(s) == s.k = "nan"

(***************************************************************************)
(* bool(pd.isna(s)) when s is a list: pd.isna returns an array, whose      *)
(* truth value is its single element's, raises ValueError for two or more  *)
(* elements and, for no element, is False or raises depending on the numpy *)
(* release (strict).  "raise", "true" or "false".                          *)
(***************************************************************************)
IsNaTruth(s, strict) ==
    IF s.k # "list" THEN (IF IsNa(s) THEN "true" ELSE "false")
    ELSE IF Len(s.items) >= 2 THEN "raise"
    ELSE IF Len(s.items) = 0 THEN (IF strict THEN "raise" ELSE "false")
    ELSE IF IsNa(s.items[1]) THEN "true" ELSE "false"

Returned(xs) == [raised |-> FALSE, val |-> xs]
Raised == [raised |-> TRUE, val |-> <<>>]

\* lines 80-89: try: result = ast.literal_eval(str(s)); a list is returned,
\* any other value wrapped in a list; except: return []
\* (r is the outcome of literal_eval)
WrapDropsNonList(r) ==
    IF r.ok
    THEN (IF r.val.k = "list" THEN Returned(r.val.items) ELSE Returned(<<>>))
    ELSE Returned(<<>>)

WrapWithoutExcept(r) ==
    IF r.ok
    THEN (IF r.val.k = "list" THEN Returned(r.val.items) ELSE Returned(<<r.val>>))
    ELSE Raised

WrapResult(r) ==
    IF r.ok
    THEN (IF r.val.k = "list" THEN Returned(r.val.items) ELSE Returned(<<r.val>>))
    ELSE Returned(<<>>)

EvalCell(s) == WrapResult(literal_eval(CellStr(s)))

\* the text tests of the first line: s == '' (and s == '[]' in
\* combine_groups_ips.py)
IsEmptyText(script, s) ==
    /\ s.k = "text"
    /\ \/ s.v = <<>>
       \/ script = "combine" /\ s.v = <<LB, RB>>

\* parse_list_string(s) of clean_nfast_rules.py (script = "clean") and of
\* combine_groups_ips.py (script = "combine")
parse_list_string(script, s, strict) ==
    LET na == IsNaTruth(s, strict) IN
    IF na = "raise" THEN Raised
    ELSE IF na = "true" \/ IsEmptyText(script, s) THEN Returned(<<>>)
    ELSE IF s.k = "list" THEN Returned(s.items)
    ELSE EvalCell(s)

(***************************************************************************)
(* The regular expressions of clean_nfast_rules.py, matched on characters. *)
(***************************************************************************)
\* how many digits stand at positions p, p+1, ... of cs
RECURSIVE DigitRun(_, _)
DigitRun(cs, p) ==
    IF p <= Len(cs) /\ cs[p] \in Digits THEN 1 + DigitRun(cs, p + 1) ELSE 0

\* \d{lo,hi} at p, followed by no further digit: the position after it, 0 if
\* it does not match
MatchDigits(cs, p, lo, hi) ==
    LET n == DigitRun(cs, p)
    IN IF p >= 1 /\ n >= lo /\ n <= hi THEN p + n ELSE 0

\* the literal character c at p: the position after it, 0 if it does not match
MatchChar(cs, p, c) ==
    IF p >= 1 /\ p <= Len(cs) /\ cs[p] = c THEN p + 1 ELSE 0

\* \d{1,3}\.\d{1,3}\.\d{1,3}\.\d{1,3} at p
MatchDotted(cs, p) ==
    LET p1 == MatchChar(cs, MatchDigits(cs, p, 1, 3), ".")
        p2 == MatchChar(cs, MatchDigits(cs, p1, 1, 3), ".")
        p3 == MatchChar(cs, MatchDigits(cs, p2, 1, 3), ".")
    IN MatchDigits(cs, p3, 1, 3)

\* is_ip_or_subnet(s): ^\d{1,3}\.\d{1,3}\.\d{1,3}\.\d{1,3}(/\d{1,2})?$ on
\* str(s).strip()
is_ip_or_subnet(cs) ==
    LET s == StripChars(cs)
        p == MatchDotted(s, 1)
    IN /\ p # 0
       /\ \/ p = Len(s) + 1
          \/ MatchDigits(s, MatchChar(s, p, "/"), 1, 2) = Len(s) + 1

\* is_ip_range(s): ^\d{1,3}(\.\d{1,3}){3}-\d{1,3}(\.\d{1,3}){3}$ on
\* str(s).strip()
is_ip_range(cs) ==
    LET s == StripChars(cs)
        p == MatchChar(s, MatchDotted(s, 1), "-")
    IN p # 0 /\ MatchDotted(s, p) = Len(s) + 1

\* every item of the groups taken, whether or not it is an address
RECURSIVE ExtractWithoutFilter(_)
ExtractWithoutFilter(groups_list) ==
    IF groups_list = <<>> THEN <<>>
    ELSE <<StrVal(StripChars(StrOf(Head(groups_list))))>>
         \o ExtractWithoutFilter(Tail(groups_list))

\* extract_ips_from_groups(groups_list): the stripped str() of every item
\* that is_ip_or_subnet accepts
RECURSIVE extract_ips_from_groups(_)
extract_ips_from_groups(groups_list) ==
    IF groups_list = <<>> THEN <<>>
    ELSE LET item_str == StripChars(StrOf(Head(groups_list)))
         IN (IF is_ip_or_subnet(item_str) THEN <<StrVal(item_str)>> ELSE <<>>)
            \o extract_ips_from_groups(Tail(groups_list))

SeqRange(xs) == {xs[i] : i \in 1..Len(xs)}

\* list(set(xs)): every order of the distinct elements of xs (the iteration
\* order of a set of str depends on the process's hash seed)
ListOfSet(xs) ==
    LET S == SeqRange(xs)
    IN {f \in [1..Cardinality(S) -> S] :
           \A i, j \in 1..Cardinality(S) : i # j => f[i] # f[j]}

\* set(xs) raises TypeError when an element is unhashable
SetRaises(xs) == \E i \in 1..Len(xs) : ~Hashable(xs[i])

IsRange(x) == is_ip_range(StrOf(x))
NotRange(x) == ~is_ip_range(StrOf(x))

\* the list as it is, no duplicate removed
WithoutDedupe(xs, seen) == xs

\* combine_groups_ips.py lines 137-144: the first occurrence of every str()
RECURSIVE UniqueByStr(_, _)
UniqueByStr(xs, seen) ==
    IF xs = <<>> THEN <<>>
    ELSE LET item_str == StrOf(Head(xs))
         IN IF item_str \in seen THEN UniqueByStr(Tail(xs), seen)
            ELSE <<Head(xs)>> \o UniqueByStr(Tail(xs), seen \cup {item_str})

(***************************************************************************)
(* combine_list_strings of combine_groups_ips_string.py.                   *)
(***************************************************************************)
RECURSIVE RStripLex(_, _)
RStripLex(ts, t) ==
    IF ts # <<>> /\ ts[Len(ts)].t = t
    THEN RStripLex(SubSeq(ts, 1, Len(ts) - 1), t)
    ELSE ts

RECURSIVE LStripLex(_, _)
LStripLex(ts, t) ==
    IF ts # <<>> /\ Head(ts).t = t THEN LStripLex(Tail(ts), t) ELSE ts

EmptyTexts == {<<>>, <<LB, RB>>, <<WordLx(<<"n", "a", "n">>)>>}

\* lines 41-47: a null or empty operand becomes '[]', every other one its
\* stripped str()
NormalizeOperand(c) ==
    IF IsNa(c) \/ StripText(CellStr(c)) \in EmptyTexts
    THEN <<LB, RB>>
    ELSE StripText(CellStr(c))

combine_list_strings(groups_str, ips_str) ==
    LET g == NormalizeOperand(groups_str)
        i == NormalizeOperand(ips_str)
    IN IF g = <<LB, RB>> /\ i = <<LB, RB>> THEN <<LB, RB>>
       ELSE IF g = <<LB, RB>> THEN i
       ELSE IF i = <<LB, RB>> THEN g
       ELSE StripText(RStripLex(g, "rb")) \o <<COMMA, WS>>
            \o StripText(LStripLex(i, "lb"))

(***************************************************************************)
(* The reconciliation pipeline of spec.md section 4: Entry Classifier      *)
(* (4.1), Layered Lookup Index (4.2), Record Enricher (4.3) and            *)
(* Aggregator (4.4).                                                       *)
(***************************************************************************)
MaxOctet == 255
MaxPrefixV4 == 32
MaxPrefixV6 == 128

HexChars == Digits \cup {"a", "b", "c", "d", "e", "f"}

\* the number written by the n digits of cs from position p
RECURSIVE NumAt(_, _, _)
NumAt(cs, p, n) ==
    IF n = 0 THEN 0 ELSE NumAt(cs, p, n - 1) * 10 + DigitVal(cs[p + n - 1])

\* a decimal number of 1 to maxDigits digits, at most maxVal, followed by no
\* digit, at p: the position after it, 0 if there is none
MatchNumber(cs, p, maxDigits, maxVal) ==
    IF p >= 1 /\ DigitRun(cs, p) >= 1 /\ DigitRun(cs, p) <= maxDigits
       /\ NumAt(cs, p, DigitRun(cs, p)) <= maxVal
    THEN p + DigitRun(cs, p)
    ELSE 0

MatchOctetDot(cs, p) == MatchChar(cs, MatchNumber(cs, p, 3, MaxOctet), ".")

\* cs is the text of an IPv4 address: four decimal octets of at most 255
IsIPv4(cs) ==
    MatchNumber(cs, MatchOctetDot(cs, MatchOctetDot(cs, MatchOctetDot(cs, 1))), 3, MaxOctet)
        = Len(cs) + 1

CountChar(cs, c) == Cardinality({i \in 1..Len(cs) : cs[i] = c})

\* cs is the text of an IPv6 address, in a reduced form: hexadecimal digits
\* and between two and seven colons
IsIPv6(cs) ==
    /\ cs # <<>>
    /\ \A i \in 1..Len(cs) : cs[i] \in HexChars \cup {":"}
    /\ CountChar(cs, ":") >= 2
    /\ CountChar(cs, ":") <= 7

\* the position of the first c in cs, 0 if there is none
IndexOfChar(cs, c) ==
    IF \E i \in 1..Len(cs) : cs[i] = c
    THEN CHOOSE i \in 1..Len(cs) : cs[i] = c /\ \A j \in 1..(i - 1) : cs[j] # c
    ELSE 0

\* cs is a prefix length of at most maxVal
IsPrefixLen(cs, maxVal) == MatchNumber(cs, 1, 3, maxVal) = Len(cs) + 1

Classes == {"single-ip", "host-route", "subnet", "unparseable"}

\* the class of address/prefix
ClassifyNetwork(addr, pre) ==
    IF IsIPv4(addr) /\ IsPrefixLen(pre, MaxPrefixV4)
    THEN (IF NumAt(pre, 1, Len(pre)) = MaxPrefixV4 THEN "host-route" ELSE "subnet")
    ELSE IF IsIPv6(addr) /\ IsPrefixLen(pre, MaxPrefixV6)
    THEN (IF NumAt(pre, 1, Len(pre)) = MaxPrefixV6 THEN "host-route" ELSE "subnet")
    ELSE "unparseable"

\* the class of a trimmed token
ClassifyRaisesOnEmpty(s) ==
    IF s = <<>> THEN "raise"
    ELSE IF IndexOfChar(s, "/") = 0
    THEN (IF IsIPv4(s) \/ IsIPv6(s) THEN "single-ip" ELSE "unparseable")
    ELSE ClassifyNetwork(SubSeq(s, 1, IndexOfChar(s, "/") - 1),
                         SubSeq(s, IndexOfChar(s, "/") + 1, Len(s)))

ClassifyTrimmed(s) ==
    IF s = <<>> THEN "unparseable"
    ELSE IF IndexOfChar(s, "/") = 0
    THEN (IF IsIPv4(s) \/ IsIPv6(s) THEN "single-ip" ELSE "unparseable")
    ELSE ClassifyNetwork(SubSeq(s, 1, IndexOfChar(s, "/") - 1),
                         SubSeq(s, IndexOfChar(s, "/") + 1, Len(s)))

\* 4.1: classify(token)
classify(token) == ClassifyTrimmed(StripChars(token))

EndsWith(cs, suffix) ==
    /\ Len(cs) >= Len(suffix)
    /\ SubSeq(cs, Len(cs) - Len(suffix) + 1, Len(cs)) = suffix

DropLast(cs, n) == SubSeq(cs, 1, Len(cs) - n)

\* 4.2, kind = ip: strip any trailing /32 or /128 suffix, trim
KeepsHostSuffix(token) == StripChars(token)

StripHostSuffix(token) ==
    IF EndsWith(StripChars(token), <<"/", "3", "2">>)
    THEN StripChars(DropLast(StripChars(token), 3))
    ELSE IF EndsWith(StripChars(token), <<"/", "1", "2", "8">>)
    THEN StripChars(DropLast(StripChars(token), 4))
    ELSE StripChars(token)

\* 4.2, build: the mapping of one table, from the trimmed key to the
\* attributes of the last row that has it
LastRowWith(rows, key) ==
    CHOOSE i \in 1..Len(rows) :
        /\ StripChars(rows[i].key) = key
        /\ \A j \in (i + 1)..Len(rows) : StripChars(rows[j].key) # key

BuildMapping(rows) ==
    [key \in {StripChars(rows[i].key) : i \in 1..Len(rows)} |->
        rows[LastRowWith(rows, key)].attrs]

\* the index of the reference tables: the single-IP mapping and the subnet
\* mappings in priority order
build(tables) ==
    [ip |-> BuildMapping(tables.ip),
     subnets |-> [i \in 1..Len(tables.subnets) |-> BuildMapping(tables.subnets[i])]]

\* the name index: identifier -> name, the last row of an identifier wins
LastNameRow(rows, id) ==
    CHOOSE i \in 1..Len(rows) :
        rows[i].identifier = id /\ \A j \in (i + 1)..Len(rows) : rows[j].identifier # id

build_names(rows) ==
    [id \in {rows[i].identifier : i \in 1..Len(rows)} |-> rows[LastNameRow(rows, id)].name]

NotFound == [found |-> FALSE, file |-> "none", attrs |-> <<>>]
Found(file, attrs) == [found |-> TRUE, file |-> file, attrs |-> attrs]

IpTableName == "ip-table"
SubnetTableName(i) == CASE i = 1 -> "T1" [] i = 2 -> "T2" [] OTHER -> "T3"

\* the tables of the index that hold key
Holding(index, key) == {i \in 1..Len(index.subnets) : key \in DOMAIN index.subnets[i]}

\* the table whose entry is returned: the first in priority order
LastHit(hits) == CHOOSE i \in hits : \A j \in hits : j <= i
FirstHit(hits) == CHOOSE i \in hits : \A j \in hits : i <= j

\* 4.2, kind = subnet: the first mapping, in priority order, that holds the key
LookupSubnet(index, key) ==
    IF Holding(index, key) = {} THEN NotFound
    ELSE Found(SubnetTableName(FirstHit(Holding(index, key))),
               index.subnets[FirstHit(Holding(index, key))][key])

\* 4.2, kind = ip
LookupIp(index, key) ==
    IF key \in DOMAIN index.ip THEN Found(IpTableName, index.ip[key]) ELSE NotFound

\* a subnet token that falls back on the single-IP table by its address part
LookupWithIpFallback(index, token, class) ==
    IF class \in {"single-ip", "host-route"}
    THEN LookupIp(index, StripHostSuffix(token))
    ELSE IF class = "subnet"
    THEN (IF LookupSubnet(index, StripChars(token)).found
          THEN LookupSubnet(index, StripChars(token))
          ELSE LookupIp(index, SubSeq(StripChars(token), 1,
                                      IndexOfChar(StripChars(token), "/") - 1)))
    ELSE NotFound

\* 4.1 policy and 4.2: lookup(key, kind) of a token of the given class
lookup(index, token, class) ==
    IF class \in {"single-ip", "host-route"}
    THEN LookupIp(index, StripHostSuffix(token))
    ELSE IF class = "subnet"
    THEN LookupSubnet(index, StripChars(token))
    ELSE NotFound

Null == "null"

\* 4.3: the Entry Analysis of a resolved token
EntryAnalysis(hit, names) ==
    [file |-> hit.file,
     environment |-> hit.attrs.environment,
     function |-> hit.attrs.function,
     location |-> hit.attrs.location,
     infra |-> hit.attrs.infra,
     identifier |-> hit.attrs.identifier,
     identifier_name |->
        IF hit.attrs.identifier # Null /\ hit.attrs.identifier \in DOMAIN names
        THEN names[hit.attrs.identifier]
        ELSE Null]

(***************************************************************************)
(* The workbook: columns, rows and the sample rows the runs draw from.     *)
(***************************************************************************)
required_columns == {"Source Groups", "Source IP", "Destination Groups", "Destination IP"}

\* a passthrough column of the rule dataset
OtherColumns == {"Rule Name"}

AllColumns == required_columns \cup OtherColumns

IP1 == <<"1", "0", ".", "0", ".", "0", ".", "1">>
IP2 == <<"1", "0", ".", "0", ".", "0", ".", "2">>
NET1 == <<"1", "0", ".", "0", ".", "0", ".", "0", "/", "2", "4">>
RANGE1 == <<"1", ".", "1", ".", "1", ".", "1", "-", "2", ".", "2", ".", "2", ".", "2">>
GRP == <<"g", "r", "p", "A">>
NAME1 == <<"r", "1">>

\* the text of a flat list of strings, as str(list) writes it
ListText(css) == ReprLex(ListVal([i \in 1..Len(css) |-> StrVal(css[i])]))

MakeRow(sg, sip, dg, dip) ==
    [c \in AllColumns |->
        CASE c = "Source Groups" -> sg
          [] c = "Source IP" -> sip
          [] c = "Destination Groups" -> dg
          [] c = "Destination IP" -> dip
          [] OTHER -> TextCell(<<WordLx(NAME1)>>)]

\* groups holding a name and an address; an address; a network
RowPlain ==
    MakeRow(TextCell(ListText(<<GRP, IP1>>)), TextCell(ListText(<<IP2>>)),
            TextCell(ListText(<<>>)), TextCell(ListText(<<NET1>>)))
\* a duplicate, a range and empty cells
RowRange ==
    MakeRow(TextCell(ListText(<<IP2>>)), TextCell(ListText(<<IP2, RANGE1>>)),
            NanVal, NanVal)
\* Source Groups is a bare word, no Python literal
RowBareWord ==
    MakeRow(TextCell(<<WordLx(GRP)>>), TextCell(ListText(<<IP1>>)),
            TextCell(ListText(<<IP1>>)), TextCell(<<>>))
\* Source IP is a nested list: [['10.0.0.1']]
RowNested ==
    MakeRow(TextCell(ListText(<<GRP>>)), TextCell(<<LB>> \o ListText(<<IP1>>) \o <<RB>>),
            NanVal, TextCell(ListText(<<IP2>>)))
\* Destination IP is a dict literal: {'10.0.0.1': 1}
RowDict ==
    MakeRow(NanVal, TextCell(ListText(<<IP1>>)), TextCell(ListText(<<IP1>>)),
            TextCell(<<LC, StrLx(IP1), COLON, WS, NumLx(<<"1">>), RC>>))
\* Source IP is a quoted string, no list: '10.0.0.1'
RowScalar ==
    MakeRow(TextCell(ListText(<<IP2>>)), TextCell(<<StrLx(IP1)>>),
            NanVal, NanVal)

\* Source IP holds a number too large for a float: [1e999]
RowOverflow ==
    MakeRow(TextCell(ListText(<<GRP>>)), TextCell(<<LB, NumLx(OverflowText), RB>>),
            NanVal, TextCell(ListText(<<IP1>>)))

RowSamples == {RowPlain, RowRange, RowBareWord, RowNested, RowDict, RowScalar}

Datasets == UNION {[1..n -> RowSamples] : n \in 0..MaxRows}

Restrict(row, cols) == [c \in cols |-> row[c]]

\* the input files a run may meet: absent, unreadable, lacking one required
\* column, or complete
InputFiles ==
    {[exists |-> FALSE, readable |-> FALSE, columns |-> {}, rows |-> <<>>]}
    \cup {[exists |-> TRUE, readable |-> FALSE, columns |-> {}, rows |-> <<>>]}
    \cup {[exists |-> TRUE, readable |-> TRUE, columns |-> cols,
           rows |-> [i \in 1..Len(d) |-> Restrict(d[i], cols)]] :
             cols \in {AllColumns} \cup {AllColumns \ {c} : c \in required_columns},
             d \in Datasets}

\* complete workbooks with the overflow row
OverflowFiles ==
    {[exists |-> TRUE, readable |-> TRUE, columns |-> AllColumns, rows |-> d] :
        d \in {<<RowOverflow>>, <<RowPlain, RowOverflow>>}}

Scripts == {"clean", "combine", "combine_string"}

ZeroStats ==
    [rows_processed |-> 0, source_ips_added |-> 0, dest_ips_added |-> 0,
     ip_ranges_removed |-> 0]

VARIABLES
    script,          \* which script runs (or whose function is applied)
    create_backup,   \* the create_backup argument
    input_file,      \* the workbook at input_file
    pc,              \* the position of the run
    error,           \* the error reported or the exception raised, "none"
    backup_file,     \* "none", "created" or "failed"
    df,              \* the dataframe
    idx,             \* the row the loop is at (from 1)
    stats,           \* the counters of the run
    new_source_ips,  \* combine_groups_ips_string.py: the new column values
    new_dest_ips,
    output_file,     \* what to_excel wrote
    summary,         \* the summary printed at the end, <<>> if none
    arg,             \* the argument of a function applied on its own
    result,          \* its result
    reference,       \* pipeline: the reference tables
    index,           \* pipeline: the Lookup Index
    name_index,      \* pipeline: the Identifier-Name Index
    rules,           \* pipeline: the rule records, their lists parsed
    row_i,           \* pipeline: the rule record being enriched
    side,            \* pipeline: "source" or "destination"
    tok_i,           \* pipeline: the token of the list being resolved
    analysis,        \* pipeline: the AnalysisMap being built
    enriched,        \* pipeline: the AnalysisMaps of the rule records
    run_stats,       \* pipeline: the Run Statistics
    first_run        \* what the previous run over the same input wrote

pipeVars == <<reference, index, name_index, rules, row_i, side, tok_i, analysis,
              enriched, run_stats>>

\* the variable that outlives a run
twiceVars == <<first_run>>

VARIABLES
    urls,            \* web-ping: the list given to test_urls_batch
    max_workers,     \* web-ping: the size of the thread pool
    batch_pc,        \* web-ping: the position of the calling thread
    future,          \* web-ping: the submitted calls, in order of submission
    collected,       \* web-ping: the futures as_completed has yielded
    results          \* web-ping: the results list

webVars == <<urls, max_workers, batch_pc, future, collected, results>>

\* test_urls_batch is not running
WebIdle ==
    /\ urls = <<>>
    /\ max_workers = 1
    /\ batch_pc = "idle"
    /\ future = <<>>
    /\ collected = {}
    /\ results = <<>>

vars == <<script, create_backup, input_file, pc, error, backup_file, df, idx, stats,
          new_source_ips, new_dest_ips, output_file, summary, arg, result, pipeVars, twiceVars, webVars>>

runVars == <<script, create_backup, input_file, pc, error, backup_file, df, idx, stats,
             new_source_ips, new_dest_ips, output_file, summary>>

runVarsButPc == <<script, create_backup, input_file, error, backup_file, df, idx, stats,
                  new_source_ips, new_dest_ips, output_file, summary>>

NoOutput == [written |-> FALSE, rows |-> <<>>]

NoReference == [ip |-> <<>>, subnets |-> <<>>, names |-> <<>>]
NoIndex == [ip |-> <<>>, subnets |-> <<>>]
TableNames == {"ip-table", "T1", "T2", "T3"}
ZeroRunStats ==
    [found |-> 0, by_table |-> [n \in TableNames |-> 0], ips |-> 0, subnets |-> 0,
     unmatched |-> 0]

\* the pipeline is not running
PipeIdle ==
    /\ reference = NoReference
    /\ index = NoIndex
    /\ name_index = <<>>
    /\ rules = <<>>
    /\ row_i = 1
    /\ side = "source"
    /\ tok_i = 1
    /\ analysis = <<>>
    /\ enriched = <<>>
    /\ run_stats = ZeroRunStats

\* no script is running
RunIdle ==
    /\ create_backup = FALSE
    /\ input_file = [exists |-> FALSE, readable |-> FALSE, columns |-> {}, rows |-> <<>>]
    /\ error = "none"
    /\ backup_file = "none"
    /\ df = <<>>
    /\ idx = 1
    /\ stats = ZeroStats
    /\ new_source_ips = <<>>
    /\ new_dest_ips = <<>>
    /\ output_file = NoOutput
    /\ summary = <<>>
    /\ first_run = NoOutput

Init ==
    /\ script \in Scripts
    /\ create_backup \in BOOLEAN
    /\ input_file \in InputFiles
    /\ pc = "start"
    /\ error = "none"
    /\ backup_file = "none"
    /\ df = <<>>
    /\ idx = 1
    /\ stats = ZeroStats
    /\ new_source_ips = <<>>
    /\ new_dest_ips = <<>>
    /\ output_file = NoOutput
    /\ summary = <<>>
    /\ arg = NanVal
    /\ result = Returned(<<>>)
    /\ PipeIdle
    /\ WebIdle
    /\ first_run = NoOutput

\* a return after an error message
ReturnError(e) ==
    /\ pc' = "returned"
    /\ error' = e

\* an uncaught exception ends the run
Raise(e) ==
    /\ pc' = "crashed"
    /\ error' = e

\* if not os.path.exists(input_file): ... return
CheckExists ==
    /\ pc = "start"
    /\ IF input_file.exists
       THEN pc' = "backup" /\ error' = error
       ELSE ReturnError("not_found")
    /\ UNCHANGED <<script, create_backup, input_file, backup_file, df, idx, stats,
                   new_source_ips, new_dest_ips, output_file, summary, arg, result, pipeVars, twiceVars, webVars>>

\* the copy made whatever create_backup says
CreateBackupIgnoresFlag ==
    /\ pc = "backup"
    /\ \E copied \in BOOLEAN :
           backup_file' = IF copied THEN "created" ELSE "failed"
    /\ pc' = "read"
    /\ UNCHANGED <<script, create_backup, input_file, error, df, idx, stats,
                   new_source_ips, new_dest_ips, output_file, summary, arg, result,
                   pipeVars, twiceVars, webVars>>

\* a failed copy ends the run
CreateBackupFatal ==
    /\ pc = "backup"
    /\ IF create_backup
       THEN \E copied \in BOOLEAN :
                IF copied
                THEN backup_file' = "created" /\ pc' = "read" /\ error' = error
                ELSE backup_file' = "failed" /\ ReturnError("backup_failed")
       ELSE backup_file' = backup_file /\ pc' = "read" /\ error' = error
    /\ UNCHANGED <<script, create_backup, input_file, df, idx, stats,
                   new_source_ips, new_dest_ips, output_file, summary, arg, result,
                   pipeVars, twiceVars, webVars>>

\* if create_backup: try shutil.copy2(...) except: warning
CreateBackup ==
    /\ pc = "backup"
    /\ IF create_backup
       THEN \E copied \in BOOLEAN :
                backup_file' = IF copied THEN "created" ELSE "failed"
       ELSE backup_file' = backup_file
    /\ pc' = "read"
    /\ UNCHANGED <<script, create_backup, input_file, error, df, idx, stats,
                   new_source_ips, new_dest_ips, output_file, summary, arg, result, pipeVars, twiceVars, webVars>>

\* try: df = pd.read_excel(...) except: ... return
ReadInput ==
    /\ pc = "read"
    /\ IF input_file.readable
       THEN df' = input_file.rows /\ pc' = "check_columns" /\ error' = error
       ELSE df' = df /\ ReturnError("read_failed")
    /\ UNCHANGED <<script, create_backup, input_file, backup_file, idx, stats,
                   new_source_ips, new_dest_ips, output_file, summary, arg, result, pipeVars, twiceVars, webVars>>

missing_columns == required_columns \ input_file.columns

\* the column check with its return left out
CheckColumnsNoReturn ==
    /\ pc = "check_columns"
    /\ pc' = IF script = "combine_string" THEN "sample_before" ELSE "loop"
    /\ stats' = ZeroStats
    /\ idx' = 1
    /\ UNCHANGED <<script, create_backup, input_file, error, backup_file, df,
                   new_source_ips, new_dest_ips, output_file, summary, arg, result, pipeVars, twiceVars, webVars>>

\* if missing_columns: ... return; then the counters are set to zero
CheckColumns ==
    /\ pc = "check_columns"
    /\ IF missing_columns # {}
       THEN ReturnError("missing_columns")
       ELSE /\ pc' = IF script = "combine_string" THEN "sample_before" ELSE "loop"
            /\ error' = error
    /\ stats' = ZeroStats
    /\ idx' = 1
    /\ UNCHANGED <<script, create_backup, input_file, backup_file, df,
                   new_source_ips, new_dest_ips, output_file, summary, arg, result, pipeVars, twiceVars, webVars>>

\* combine_groups_ips_string.py lines 123-126: df.iloc[0] of the sample print
SampleBefore ==
    /\ pc = "sample_before"
    /\ IF Len(df) = 0 THEN Raise("IndexError") ELSE pc' = "loop" /\ error' = error
    /\ UNCHANGED <<script, create_backup, input_file, backup_file, df, idx, stats,
                   new_source_ips, new_dest_ips, output_file, summary, arg, result, pipeVars, twiceVars, webVars>>

\* the four parsed lists of a row; raised when a parse_list_string call raised
ParsedLists(sg, si, dg, di) ==
    [raised |-> sg.raised \/ si.raised \/ dg.raised \/ di.raised,
     source_groups |-> sg.val, source_ips |-> si.val,
     dest_groups |-> dg.val, dest_ips |-> di.val]

ParsedRow(row, strict) ==
    ParsedLists(parse_list_string(script, row["Source Groups"], strict),
                parse_list_string(script, row["Source IP"], strict),
                parse_list_string(script, row["Destination Groups"], strict),
                parse_list_string(script, row["Destination IP"], strict))

ListCell(xs) == TextCell(ReprLex(ListVal(xs)))

\* the ranges of the row assigned to the counter instead of added to it
WriteCleanRowAssignsCount(combined_source_ips, combined_dest_ips, stats3) ==
    /\ stats' = [stats3 EXCEPT !.ip_ranges_removed =
                    Len(SelectSeq(combined_source_ips, IsRange))
                      + Len(SelectSeq(combined_dest_ips, IsRange))]
    /\ df' = [df EXCEPT
                ![idx]["Source IP"] = ListCell(SelectSeq(combined_source_ips, NotRange)),
                ![idx]["Destination IP"] = ListCell(SelectSeq(combined_dest_ips, NotRange))]
    /\ idx' = idx + 1
    /\ UNCHANGED <<pc, error>>

\* lines 213-230: the ranges are counted and removed, the two cells written
WriteCleanRow(combined_source_ips, combined_dest_ips, stats3) ==
    /\ stats' = [stats3 EXCEPT !.ip_ranges_removed =
                    @ + Len(SelectSeq(combined_source_ips, IsRange))
                      + Len(SelectSeq(combined_dest_ips, IsRange))]
    /\ df' = [df EXCEPT
                ![idx]["Source IP"] = ListCell(SelectSeq(combined_source_ips, NotRange)),
                ![idx]["Destination IP"] = ListCell(SelectSeq(combined_dest_ips, NotRange))]
    /\ idx' = idx + 1
    /\ UNCHANGED <<pc, error>>

\* lines 183-211: the counters, and list(set(...)) of each side
CombineCleanRow(raised, source_all, dest_all, n_source, n_dest) ==
    IF raised
    THEN /\ Raise("ValueError")
         /\ stats' = [stats EXCEPT !.rows_processed = @ + 1]
         /\ UNCHANGED <<df, idx>>
    ELSE IF SetRaises(source_all)
    THEN /\ Raise("TypeError")
         /\ stats' = [stats EXCEPT !.rows_processed = @ + 1,
                                   !.source_ips_added = @ + n_source]
         /\ UNCHANGED <<df, idx>>
    ELSE IF SetRaises(dest_all)
    THEN /\ Raise("TypeError")
         /\ stats' = [stats EXCEPT !.rows_processed = @ + 1,
                                   !.source_ips_added = @ + n_source,
                                   !.dest_ips_added = @ + n_dest]
         /\ UNCHANGED <<df, idx>>
    ELSE \E combined_source_ips \in ListOfSet(source_all),
            combined_dest_ips \in ListOfSet(dest_all) :
             WriteCleanRow(combined_source_ips, combined_dest_ips,
                           [stats EXCEPT !.rows_processed = @ + 1,
                                         !.source_ips_added = @ + n_source,
                                         !.dest_ips_added = @ + n_dest])

ExtractCleanRow(p, extracted_source_ips, extracted_dest_ips) ==
    CombineCleanRow(p.raised, p.source_ips \o extracted_source_ips,
                    p.dest_ips \o extracted_dest_ips,
                    Len(extracted_source_ips), Len(extracted_dest_ips))

CleanRow(p) ==
    ExtractCleanRow(p, extract_ips_from_groups(p.source_groups),
                    extract_ips_from_groups(p.dest_groups))

\* clean_nfast_rules.py lines 182-230: one iteration of the row loop
ProcessRowClean ==
    /\ pc = "loop"
    /\ script = "clean"
    /\ idx <= Len(df)
    /\ \E strict \in BOOLEAN : CleanRow(ParsedRow(df[idx], strict))
    /\ UNCHANGED <<script, create_backup, input_file, backup_file,
                   new_source_ips, new_dest_ips, output_file, summary, arg, result, pipeVars, twiceVars, webVars>>

\* the combined lists written to the Groups columns instead of the IP columns
CombineRowWritesGroups(p) ==
    IF p.raised
    THEN /\ Raise("ValueError")
         /\ stats' = [stats EXCEPT !.rows_processed = @ + 1]
         /\ UNCHANGED <<df, idx>>
    ELSE /\ stats' = [stats EXCEPT
                        !.rows_processed = @ + 1,
                        !.source_ips_added = @ + Len(p.source_groups),
                        !.dest_ips_added = @ + Len(p.dest_groups)]
         /\ df' = [df EXCEPT
                     ![idx]["Source Groups"] =
                         ListCell(UniqueByStr(p.source_groups \o p.source_ips, {})),
                     ![idx]["Destination Groups"] =
                         ListCell(UniqueByStr(p.dest_groups \o p.dest_ips, {}))]
         /\ idx' = idx + 1
         /\ UNCHANGED <<pc, error>>

\* lines 134-168: both sides combined, the counters, the two cells written
CombineRow(p) ==
    IF p.raised
    THEN /\ Raise("ValueError")
         /\ stats' = [stats EXCEPT !.rows_processed = @ + 1]
         /\ UNCHANGED <<df, idx>>
    ELSE /\ stats' = [stats EXCEPT
                        !.rows_processed = @ + 1,
                        !.source_ips_added = @ + Len(p.source_groups),
                        !.dest_ips_added = @ + Len(p.dest_groups)]
         /\ df' = [df EXCEPT
                     ![idx]["Source IP"] =
                         ListCell(UniqueByStr(p.source_groups \o p.source_ips, {})),
                     ![idx]["Destination IP"] =
                         ListCell(UniqueByStr(p.dest_groups \o p.dest_ips, {}))]
         /\ idx' = idx + 1
         /\ UNCHANGED <<pc, error>>

\* combine_groups_ips.py lines 127-172: one iteration of the row loop
\* (source_items_added and dest_items_added are the counters
\* source_ips_added and dest_ips_added of stats)
ProcessRowCombine ==
    /\ pc = "loop"
    /\ script = "combine"
    /\ idx <= Len(df)
    /\ \E strict \in BOOLEAN : CombineRow(ParsedRow(df[idx], strict))
    /\ UNCHANGED <<script, create_backup, input_file, backup_file,
                   new_source_ips, new_dest_ips, output_file, summary, arg, result, pipeVars, twiceVars, webVars>>

\* combine_groups_ips_string.py lines 136-149: one iteration of the row loop
ProcessRowString ==
    /\ pc = "loop"
    /\ script = "combine_string"
    /\ idx <= Len(df)
    /\ LET row == df[idx]
       IN /\ new_source_ips' = Append(new_source_ips,
                 TextCell(combine_list_strings(row["Source Groups"], row["Source IP"])))
          /\ new_dest_ips' = Append(new_dest_ips,
                 TextCell(combine_list_strings(row["Destination Groups"],
                                               row["Destination IP"])))
    /\ stats' = [stats EXCEPT !.rows_processed = @ + 1]
    /\ idx' = idx + 1
    /\ UNCHANGED <<script, create_backup, input_file, pc, error, backup_file, df,
                   output_file, summary, arg, result, pipeVars, twiceVars, webVars>>

\* the row loop ends
LoopDone ==
    /\ pc = "loop"
    /\ idx > Len(df)
    /\ pc' = IF script = "combine_string" THEN "update" ELSE "save"
    /\ UNCHANGED <<script, create_backup, input_file, error, backup_file, df, idx,
                   stats, new_source_ips, new_dest_ips, output_file, summary, arg, result, pipeVars, twiceVars, webVars>>

\* the new values assigned to the Groups columns as well
UpdateColumnsAlsoGroups ==
    /\ pc = "update"
    /\ df' = [i \in 1..Len(df) |->
                [df[i] EXCEPT !["Source IP"] = new_source_ips[i],
                              !["Source Groups"] = new_source_ips[i],
                              !["Destination IP"] = new_dest_ips[i],
                              !["Destination Groups"] = new_dest_ips[i]]]
    /\ IF Len(df) = 0 THEN Raise("IndexError") ELSE pc' = "save" /\ error' = error
    /\ UNCHANGED <<script, create_backup, input_file, backup_file, idx, stats,
                   new_source_ips, new_dest_ips, output_file, summary, arg, result,
                   pipeVars, twiceVars, webVars>>

\* combine_groups_ips_string.py lines 151-159: the two columns are replaced,
\* then df.iloc[0] of the sample print
UpdateColumns ==
    /\ pc = "update"
    /\ df' = [i \in 1..Len(df) |->
                [df[i] EXCEPT !["Source IP"] = new_source_ips[i],
                              !["Destination IP"] = new_dest_ips[i]]]
    /\ IF Len(df) = 0 THEN Raise("IndexError") ELSE pc' = "save" /\ error' = error
    /\ UNCHANGED <<script, create_backup, input_file, backup_file, idx, stats,
                   new_source_ips, new_dest_ips, output_file, summary, arg, result, pipeVars, twiceVars, webVars>>

\* the save whose except branch has no return
SaveOutputNoReturn ==
    /\ pc = "save"
    /\ \E saved \in BOOLEAN :
        IF saved
        THEN /\ output_file' = [written |-> TRUE, rows |-> df]
             /\ pc' = "summary"
             /\ error' = error
        ELSE /\ output_file' = output_file
             /\ pc' = "summary"
             /\ error' = "save_failed"
    /\ UNCHANGED <<script, create_backup, input_file, backup_file, df, idx, stats,
                   new_source_ips, new_dest_ips, summary, arg, result, pipeVars, twiceVars, webVars>>

\* try: df.to_excel(...) except: ... return
SaveOutput ==
    /\ pc = "save"
    /\ \E saved \in BOOLEAN :
        IF saved
        THEN /\ output_file' = [written |-> TRUE, rows |-> df]
             /\ pc' = "summary"
             /\ error' = error
        ELSE /\ output_file' = output_file
             /\ ReturnError("save_failed")
    /\ UNCHANGED <<script, create_backup, input_file, backup_file, df, idx, stats,
                   new_source_ips, new_dest_ips, summary, arg, result, pipeVars, twiceVars, webVars>>

\* the summary of the counters is printed
PrintSummary ==
    /\ pc = "summary"
    /\ summary' = Append(summary, stats)
    /\ pc' = "done"
    /\ UNCHANGED <<script, create_backup, input_file, error, backup_file, df, idx,
                   stats, new_source_ips, new_dest_ips, output_file, arg, result, pipeVars, twiceVars, webVars>>

Next ==
    \/ CheckExists
    \/ CreateBackup
    \/ ReadInput
    \/ CheckColumns
    \/ SampleBefore
    \/ ProcessRowClean
    \/ ProcessRowCombine
    \/ ProcessRowString
    \/ LoopDone
    \/ UpdateColumns
    \/ SaveOutput
    \/ PrintSummary

Spec == Init /\ [][Next]_vars

(***************************************************************************)
(* The script run a second time over the same, unchanged input file.       *)
(***************************************************************************)
\* the __main__ block is entered again: the first run's output is kept
\* aside and everything else starts afresh
RunAgain ==
    /\ pc = "done"
    /\ ~first_run.written
    /\ first_run' = output_file
    /\ pc' = "start"
    /\ error' = "none"
    /\ backup_file' = "none"
    /\ df' = <<>>
    /\ idx' = 1
    /\ stats' = ZeroStats
    /\ new_source_ips' = <<>>
    /\ new_dest_ips' = <<>>
    /\ output_file' = NoOutput
    /\ summary' = <<>>
    /\ UNCHANGED <<script, create_backup, input_file, arg, result, pipeVars, webVars>>

NextTwice ==
    \/ Next
    \/ RunAgain

SpecTwice == Init /\ [][NextTwice]_vars

\* the script is run over the workbook it wrote: the first output becomes the
\* input and is kept aside, and everything else starts afresh
RunOnOutput ==
    /\ pc = "done"
    /\ ~first_run.written
    /\ first_run' = output_file
    /\ input_file' = [input_file EXCEPT !.rows = output_file.rows]
    /\ pc' = "start"
    /\ error' = "none"
    /\ backup_file' = "none"
    /\ df' = <<>>
    /\ idx' = 1
    /\ stats' = ZeroStats
    /\ new_source_ips' = <<>>
    /\ new_dest_ips' = <<>>
    /\ output_file' = NoOutput
    /\ summary' = <<>>
    /\ UNCHANGED <<script, create_backup, arg, result, pipeVars, webVars>>

NextReapply ==
    \/ Next
    \/ RunOnOutput

InitReapply ==
    /\ script \in Scripts
    /\ create_backup \in BOOLEAN
    /\ input_file \in InputFiles \cup OverflowFiles
    /\ pc = "start"
    /\ error = "none"
    /\ backup_file = "none"
    /\ df = <<>>
    /\ idx = 1
    /\ stats = ZeroStats
    /\ new_source_ips = <<>>
    /\ new_dest_ips = <<>>
    /\ output_file = NoOutput
    /\ summary = <<>>
    /\ arg = NanVal
    /\ result = Returned(<<>>)
    /\ PipeIdle
    /\ WebIdle
    /\ first_run = NoOutput

SpecReapply == InitReapply /\ [][NextReapply]_vars

(***************************************************************************)
(* parse_list_string applied on its own to every cell value within the     *)
(* bounds.                                                                 *)
(***************************************************************************)
LexAlphabet ==
    {LB, RB, LP, RP, LC, RC, COMMA, COLON, WS,
     StrLx(IP1), NumLx(<<"4", "2">>), WordLx(GRP)}

Texts == UNION {[1..n -> LexAlphabet] : n \in 0..MaxCellLen}

ListItems == {StrVal(IP1), StrVal(GRP), NanVal}

Lists == UNION {[1..n -> ListItems] : n \in 0..MaxListLen}

CellValues ==
    {NanVal, NumVal(<<"4", "2">>)}
    \cup {TextCell(ts) : ts \in Texts}
    \cup {ListVal(xs) : xs \in Lists}

InitParse ==
    /\ script \in {"clean", "combine"}
    /\ arg \in CellValues
    /\ pc = "call"
    /\ result = Returned(<<>>)
    /\ RunIdle
    /\ PipeIdle
    /\ WebIdle

\* result = parse_list_string(arg)
CallParse ==
    /\ pc = "call"
    /\ \E strict \in BOOLEAN : result' = parse_list_string(script, arg, strict)
    /\ pc' = IF result'.raised THEN "raised" ELSE "returned"
    /\ UNCHANGED <<runVarsButPc, arg, pipeVars, twiceVars, webVars>>

NextParse == CallParse

SpecParse == InitParse /\ [][NextParse]_vars

(***************************************************************************)
(* The pipeline run: Load reference tables -> Build indices -> (for each   *)
(* row, for each side: enrich, record stats) -> Write (spec.md 4.4).       *)
(***************************************************************************)
ADDR1 == <<"1", "0", ".", "1", ".", "1", ".", "1">>
ADDR2 == <<"1", "0", ".", "1", ".", "1", ".", "2">>
ADDR6 == <<":", ":", "1">>
NETA == <<"1", "0", ".", "2", ".", "0", ".", "0", "/", "1", "6">>
JUNK == <<"n", "o", "t", "-", "a", "n", "-", "i", "p">>

Attrs(env, id) ==
    [environment |-> env, function |-> Null, location |-> Null, infra |-> Null,
     identifier |-> id]

Entry(key, env, id) == [key |-> key, attrs |-> Attrs(env, id)]

\* the single-IP tables a run may load: empty; or one address twice (the
\* later row wins), with an identifier that has a name, and an IPv6 address
IpTables ==
    {<<>>,
     <<Entry(ADDR1, "dev", "I200"), Entry(ADDR6, "lab", Null),
       Entry(<<" ">> \o ADDR1, "prod", "I100")>>}

\* a subnet table is empty or holds NETA with attributes of its own
SubnetTable(i, full) ==
    IF full THEN <<Entry(NETA, SubnetTableName(i), Null)>> ELSE <<>>

SubnetTableSets == {[i \in 1..3 |-> SubnetTable(i, f[i])] : f \in [1..3 -> BOOLEAN]}

NameTable == <<[identifier |-> "I100", name |-> "Payments"]>>

References ==
    {[ip |-> ipt, subnets |-> sts, names |-> NameTable] :
        ipt \in IpTables, sts \in SubnetTableSets}

\* the tokens of a list: addresses, host routes, a subnet, a host address
\* with a non-host prefix, stray text
TokenSamples ==
    {ADDR1, ADDR1 \o <<"/", "3", "2">>, ADDR1 \o <<"/", "2", "4">>, ADDR2, NETA,
     ADDR6 \o <<"/", "1", "2", "8">>, JUNK}

TokenLists == UNION {[1..n -> TokenSamples] : n \in 0..MaxTokens}

\* the rule records: one record with any source list, alone or followed by
\* a second record
RuleSets ==
    {<<[source |-> ts, destination |-> <<NETA>>]>> : ts \in TokenLists}
    \cup {<<[source |-> ts, destination |-> <<>>],
            [source |-> <<ADDR1>>, destination |-> <<NETA, JUNK>>]>> :
                ts \in TokenLists}

InitEnrich ==
    /\ script = "pipeline"
    /\ pc = "build"
    /\ arg = NanVal
    /\ result = Returned(<<>>)
    /\ RunIdle
    /\ WebIdle
    /\ reference \in References
    /\ rules \in RuleSets
    /\ index = NoIndex
    /\ name_index = <<>>
    /\ row_i = 1
    /\ side = "source"
    /\ tok_i = 1
    /\ analysis = <<>>
    /\ enriched = <<>>
    /\ run_stats = ZeroRunStats

runVarsAll == <<script, create_backup, input_file, error, backup_file, df, idx, stats,
                new_source_ips, new_dest_ips, output_file, summary, arg, result,
                first_run, webVars>>

\* 4.2: the indices are built once, before any row is processed
BuildIndices ==
    /\ pc = "build"
    /\ index' = build(reference)
    /\ name_index' = build_names(reference.names)
    /\ enriched' = [i \in 1..Len(rules) |-> [source |-> <<>>, destination |-> <<>>]]
    /\ pc' = "enrich"
    /\ UNCHANGED <<runVarsAll, reference, rules, row_i, side, tok_i, analysis, run_stats>>

\* the token being resolved
Token == rules[row_i][side][tok_i]

\* 4.3: the AnalysisMap with the entry of a resolved token, keyed by the raw
\* token
WithPlaceholder(map, token, hit) ==
    (token :> IF hit.found THEN EntryAnalysis(hit, name_index) ELSE Null) @@ map

WithEntry(map, token, hit) ==
    IF hit.found THEN (token :> EntryAnalysis(hit, name_index)) @@ map ELSE map

\* an unresolved token is one that is valid and was not found
Unmatched(class, hit) == IF class # "unparseable" /\ ~hit.found THEN 1 ELSE 0

ResolveToken(token, class, hit) ==
    /\ analysis' = WithEntry(analysis, token, hit)
    /\ run_stats' = [run_stats EXCEPT !.unmatched = @ + Unmatched(class, hit)]

\* the index with a found token added to the single-IP mapping under its raw
\* text
CachedIndex(ix, token, hit) ==
    IF hit.found THEN [ix EXCEPT !.ip = (token :> hit.attrs) @@ @] ELSE ix

\* the enricher that remembers what it found in the Lookup Index
EnrichTokenCachesHit ==
    /\ pc = "enrich"
    /\ row_i <= Len(rules)
    /\ tok_i <= Len(rules[row_i][side])
    /\ ResolveToken(Token, classify(Token), lookup(index, Token, classify(Token)))
    /\ index' = CachedIndex(index, Token, lookup(index, Token, classify(Token)))
    /\ tok_i' = tok_i + 1
    /\ UNCHANGED <<runVarsAll, pc, reference, name_index, rules, row_i, side,
                   enriched>>

\* 4.3: one token of the list is trimmed, classified and resolved
EnrichToken ==
    /\ pc = "enrich"
    /\ row_i <= Len(rules)
    /\ tok_i <= Len(rules[row_i][side])
    /\ ResolveToken(Token, classify(Token), lookup(index, Token, classify(Token)))
    /\ tok_i' = tok_i + 1
    /\ UNCHANGED <<runVarsAll, pc, reference, index, name_index, rules, row_i, side,
                   enriched>>

\* a token counts as a subnet unless it is a bare address or ends in /32 or
\* /128
IsSubnetToken(token) ==
    /\ IndexOfChar(token, "/") # 0
    /\ StripHostSuffix(token) = StripChars(token)

\* 4.4: record(analysisMap, side)
record(map) ==
    [run_stats EXCEPT
        !.found = @ + Cardinality(DOMAIN map),
        !.by_table = [n \in TableNames |->
                        @[n] + Cardinality({k \in DOMAIN map : map[k].file = n})],
        !.subnets = @ + Cardinality({k \in DOMAIN map : IsSubnetToken(k)}),
        !.ips = @ + Cardinality({k \in DOMAIN map : ~IsSubnetToken(k)})]

\* the list of a side is done: its AnalysisMap is attached to the row and
\* recorded, and the next side or row begins
RecordSide ==
    /\ pc = "enrich"
    /\ row_i <= Len(rules)
    /\ tok_i > Len(rules[row_i][side])
    /\ enriched' = [enriched EXCEPT ![row_i][side] = analysis]
    /\ run_stats' = record(analysis)
    /\ analysis' = <<>>
    /\ tok_i' = 1
    /\ IF side = "source"
       THEN side' = "destination" /\ row_i' = row_i
       ELSE side' = "source" /\ row_i' = row_i + 1
    /\ UNCHANGED <<runVarsAll, pc, reference, index, name_index, rules>>

\* the rows are written and the statistics summarized
WriteEnriched ==
    /\ pc = "enrich"
    /\ row_i > Len(rules)
    /\ pc' = "done"
    /\ UNCHANGED <<runVarsAll, pipeVars>>

NextEnrich ==
    \/ BuildIndices
    \/ EnrichToken
    \/ RecordSide
    \/ WriteEnriched

SpecEnrich == InitEnrich /\ [][NextEnrich]_vars

(***************************************************************************)
(* classify applied on its own to every token within the bounds.           *)
(***************************************************************************)
OctetTexts == {<<"1">>, <<"1", "0">>, <<"2", "5", "6">>, <<"x">>}

SuffixTexts ==
    {<<>>, <<"/", "3", "2">>, <<"/", "2", "4">>, <<"/", "3", "3">>, <<"/">>,
     <<"/", "x">>, <<" ">>}

\* a.b.c.d followed by a suffix
DottedTokens ==
    {o[1] \o <<".">> \o o[2] \o <<".">> \o o[3] \o <<".">> \o o[4] \o s :
        o \in [1..4 -> OctetTexts], s \in SuffixTexts}

TokenChars == {"1", ".", "/", ":", " ", "x"}

\* every short string: empty, whitespace, stray text, partial addresses
ShortTokens == UNION {[1..n -> TokenChars] : n \in 0..MaxTokenLen}

ClassifierInputs == DottedTokens \cup ShortTokens \cup TokenSamples

InitClassify ==
    /\ script = "classify"
    /\ pc = "call"
    /\ arg \in ClassifierInputs
    /\ result = "none"
    /\ RunIdle
    /\ PipeIdle
    /\ WebIdle

\* result = classify(arg)
CallClassify ==
    /\ pc = "call"
    /\ result' = classify(arg)
    /\ pc' = IF result' = "raise" THEN "raised" ELSE "returned"
    /\ UNCHANGED <<runVarsButPc, arg, pipeVars, twiceVars, webVars>>

NextClassify == CallClassify

SpecClassify == InitClassify /\ [][NextClassify]_vars

(***************************************************************************)
(* is_ip_or_subnet of clean_nfast_rules.py applied on its own to the same  *)
(* strings.                                                                *)
(***************************************************************************)
InitIsIp ==
    /\ script = "is_ip_or_subnet"
    /\ pc = "call"
    /\ arg \in ClassifierInputs
    /\ result = FALSE
    /\ RunIdle
    /\ PipeIdle
    /\ WebIdle

\* result = is_ip_or_subnet(arg)
CallIsIp ==
    /\ pc = "call"
    /\ result' = is_ip_or_subnet(arg)
    /\ pc' = "returned"
    /\ UNCHANGED <<runVarsButPc, arg, pipeVars, twiceVars, webVars>>

NextIsIp == CallIsIp

SpecIsIp == InitIsIp /\ [][NextIsIp]_vars

(***************************************************************************)
(* combine_list_strings of combine_groups_ips_string.py applied on its own *)
(* to two cells: empty ones, and string forms of lists of strings and of   *)
(* lists.                                                                  *)
(***************************************************************************)
CombineItems == {StrVal(IP1), StrVal(GRP), ListVal(<<StrVal(IP2)>>)}

CombineLists == UNION {[1..n -> CombineItems] : n \in 0..MaxListLen}

CombineOperands ==
    {NanVal, TextCell(<<>>), TextCell(<<WordLx(<<"n", "a", "n">>)>>)}
    \cup {TextCell(ReprLex(ListVal(xs))) : xs \in CombineLists}

InitCombineStrings ==
    /\ script = "combine_list_strings"
    /\ pc = "call"
    /\ arg \in CombineOperands \X CombineOperands
    /\ result = <<>>
    /\ RunIdle
    /\ PipeIdle
    /\ WebIdle

\* result = combine_list_strings(groups_str, ips_str)
CallCombineStrings ==
    /\ pc = "call"
    /\ result' = combine_list_strings(arg[1], arg[2])
    /\ pc' = "returned"
    /\ UNCHANGED <<runVarsButPc, arg, pipeVars, twiceVars, webVars>>

NextCombineStrings == CallCombineStrings

SpecCombineStrings == InitCombineStrings /\ [][NextCombineStrings]_vars

(***************************************************************************)
(* web-ping.py: URLUploadTester.  A URL is text in parts: a scheme when it *)
(* has one, then the host, then a path.  The timestamp, final_url and      *)
(* response_time of a result are left out.                                 *)
(***************************************************************************)
MaxUrls == 2
MaxWorkers == 2

UrlText(parts) == [is_str |-> TRUE, parts |-> parts]

\* a value that is not a str (None)
NotText == [is_str |-> FALSE, parts |-> <<>>]

SchemePrefixes == {"http://", "https://"}

\* line 120
upload_paths == <<"", "/upload", "/api/upload", "/file-upload", "/files">>

PathTexts == {"/docs", "/upload", "/api/upload", "/file-upload", "/files"}

IsPathPart(p) == p \in PathTexts
IsNoPathPart(p) == p \notin PathTexts

\* url.startswith(('http://', 'https://'))
StartsWithScheme(url) == Len(url.parts) >= 1 /\ url.parts[1] \in SchemePrefixes

\* lines 25-26: the URL the existence check asks for
WithProtocol(url) ==
    IF StartsWithScheme(url) THEN url ELSE UrlText(<<"https://", "www.">> \o url.parts)

\* urllib.parse.urljoin(url, path) for an empty or an absolute path
urljoin(url, path) ==
    IF path = "" THEN url
    ELSE IF StartsWithScheme(url)
    THEN UrlText(SelectSeq(url.parts, IsNoPathPart) \o <<path>>)
    ELSE UrlText(<<path>>)

\* what the network does with a request: an exception of requests, or a
\* response with a status code and a page
NoStatus == 0
PlainPage == [forms |-> <<>>, keyword |-> FALSE]
UploadPage == [forms |-> <<"/upload">>, keyword |-> TRUE]
RequestException(why) == [raised |-> TRUE, why |-> why, status_code |-> NoStatus,
                          text |-> PlainPage]
Response(code, page) == [raised |-> FALSE, why |-> "none", status_code |-> code,
                         text |-> page]

\* the answers a request may get: no connection, a page with an upload form,
\* or not found
Answers ==
    {RequestException("ConnectionError"), Response(200, UploadPage),
     Response(404, PlainPage)}

\* session.get / session.post: requests raises MissingSchema, a
\* RequestException, for a URL without a scheme, before anything is sent
IsSent(url) == StartsWithScheme(url)
request(url, answer) ==
    IF IsSent(url) THEN answer ELSE RequestException("MissingSchema")

\* lines 21-45; url.startswith raises AttributeError on a value that is not
\* a str, and only RequestException is caught
check_url_exists(url, answer) ==
    IF ~url.is_str THEN Raised
    ELSE IF request(WithProtocol(url), answer).raised
    THEN Returned([url |-> WithProtocol(url), exists |-> FALSE,
                   status_code |-> NoStatus,
                   error |-> request(WithProtocol(url), answer).why])
    ELSE Returned([url |-> WithProtocol(url), exists |-> TRUE,
                   status_code |-> request(WithProtocol(url), answer).status_code,
                   error |-> "none"])

\* lines 47-113: an indicator for each file input, then the keyword matches
FileInput(url, form_action) ==
    [type |-> "file_input",
     form_action |-> IF form_action # "" THEN urljoin(url, form_action) ELSE url]

scan_for_upload_forms(url, html_content) ==
    [i \in 1..Len(html_content.forms) |-> FileInput(url, html_content.forms[i])]
    \o (IF html_content.keyword
        THEN <<[type |-> "keyword_match", keyword |-> "upload"]>>
        ELSE <<>>)

\* lines 122-152: one POST to test_url and its entry in test_results
Probe(test_url, answer) ==
    IF request(test_url, answer).raised
    THEN [endpoint |-> test_url, method |-> "POST",
          error |-> request(test_url, answer).why,
          potentially_accepts_uploads |-> FALSE]
    ELSE [endpoint |-> test_url, method |-> "POST",
          status_code |-> answer.status_code,
          potentially_accepts_uploads |-> answer.status_code \notin {404, 405, 501}]

\* lines 115-154
test_upload_endpoint(url, answers) ==
    [i \in 1..Len(upload_paths) |-> Probe(urljoin(url, upload_paths[i]), answers[i])]

\* the POST requests test_upload_endpoint sends
ProbeRequests(url) ==
    SelectSeq([i \in 1..Len(upload_paths) |->
                  [method |-> "POST", url |-> urljoin(url, upload_paths[i])]],
              LAMBDA r : IsSent(r.url))

\* lines 163-173
FirstResult(url, existence_result) ==
    [url |-> url, exists |-> existence_result.exists,
     status_code |-> existence_result.status_code, error |-> existence_result.error,
     upload_indicators |-> <<>>, upload_tests |-> <<>>, scan_error |-> "none"]

(***************************************************************************)
(* test_urls_batch: the calling thread submits one call of                 *)
(* comprehensive_url_test for each URL, the pool runs at most max_workers  *)
(* of them at a time, a step for each request a call makes, and the        *)
(* calling thread collects the futures as they complete.                   *)
(***************************************************************************)
BARE == UrlText(<<"example.com">>)
FULL == UrlText(<<"https://", "example.com", "/docs">>)

UrlSamples == {BARE, FULL, NotText}

UrlLists == UNION {[1..n -> UrlSamples] : n \in 0..MaxUrls}

\* the answers to the five POSTs of one call: all alike, or the first
\* accepted and the others not found
ProbeAnswers ==
    {[i \in 1..Len(upload_paths) |-> a] :
        a \in {RequestException("ConnectionError"), Response(404, PlainPage)}}
    \cup {[i \in 1..Len(upload_paths) |->
             IF i = 1 THEN Response(200, PlainPage) ELSE Response(404, PlainPage)]}

NoExistence == [url |-> NotText, exists |-> FALSE, status_code |-> NoStatus,
                error |-> "none"]

\* executor.submit(self.comprehensive_url_test, url): a call not yet begun
Pending(url) ==
    [url |-> url, state |-> "pending", pc |-> "check", raised |-> FALSE,
     result |-> FirstResult(url, NoExistence), requests |-> <<>>]

nonWebVars == <<runVars, arg, result, pipeVars, twiceVars>>

InitBatch ==
    /\ script = "web-ping"
    /\ pc = "batch"
    /\ arg = NanVal
    /\ result = Returned(<<>>)
    /\ RunIdle
    /\ PipeIdle
    /\ urls \in UrlLists
    /\ max_workers \in 1..MaxWorkers
    /\ batch_pc = "submit"
    /\ future = <<>>
    /\ collected = {}
    /\ results = <<>>

\* lines 199-202: every URL is submitted, in order
Submit ==
    /\ batch_pc = "submit"
    /\ future' = [i \in 1..Len(urls) |-> Pending(urls[i])]
    /\ batch_pc' = "collect"
    /\ UNCHANGED <<urls, max_workers, collected, results, nonWebVars>>

Running == {f \in DOMAIN future : future[f].state = "running"}

\* a free worker thread takes the oldest call of the queue
StartCall(f) ==
    /\ future[f].state = "pending"
    /\ Cardinality(Running) < max_workers
    /\ \A g \in 1..(f - 1) : future[g].state # "pending"
    /\ future' = [future EXCEPT ![f].state = "running"]
    /\ UNCHANGED <<urls, max_workers, batch_pc, collected, results, nonWebVars>>

\* the request added to those a call has sent, if it is sent at all
Sent(requests, method, url) ==
    IF IsSent(url) THEN Append(requests, [method |-> method, url |-> url])
    ELSE requests

\* lines 175-176 entered with any status of a URL that exists
AfterCheckAnyStatus(fu, checked) ==
    IF checked.raised
    THEN [fu EXCEPT !.state = "finished", !.pc = "end", !.raised = TRUE]
    ELSE [fu EXCEPT
            !.result = FirstResult(fu.url, checked.val),
            !.requests = Sent(@, "GET", checked.val.url),
            !.pc = IF checked.val.exists THEN "fetch" ELSE "end",
            !.state = IF checked.val.exists THEN "running" ELSE "finished"]

\* lines 161-175: the existence check, the result with its two empty lists,
\* and the test of exists and status code 200
AfterCheck(fu, checked) ==
    IF checked.raised
    THEN [fu EXCEPT !.state = "finished", !.pc = "end", !.raised = TRUE]
    ELSE [fu EXCEPT
            !.result = FirstResult(fu.url, checked.val),
            !.requests = Sent(@, "GET", checked.val.url),
            !.pc = IF checked.val.exists /\ checked.val.status_code = 200
                   THEN "fetch" ELSE "end",
            !.state = IF checked.val.exists /\ checked.val.status_code = 200
                      THEN "running" ELSE "finished"]

CheckStep(f) ==
    /\ future[f].state = "running"
    /\ future[f].pc = "check"
    /\ \E answer \in Answers :
           future' = [future EXCEPT
                        ![f] = AfterCheck(@, check_url_exists(@.url, answer))]
    /\ UNCHANGED <<urls, max_workers, batch_pc, collected, results, nonWebVars>>

\* lines 178-182, 188-189: the page of url is fetched and scanned; an
\* exception becomes the scan_error of the result
AfterFetch(fu, response) ==
    IF response.raised
    THEN [fu EXCEPT
            !.result.scan_error = response.why,
            !.requests = Sent(@, "GET", fu.url),
            !.pc = "end",
            !.state = "finished"]
    ELSE [fu EXCEPT
            !.result.upload_indicators = scan_for_upload_forms(fu.url, response.text),
            !.requests = Sent(@, "GET", fu.url),
            !.pc = "probe"]

FetchStep(f) ==
    /\ future[f].state = "running"
    /\ future[f].pc = "fetch"
    /\ \E answer \in Answers :
           future' = [future EXCEPT ![f] = AfterFetch(@, request(@.url, answer))]
    /\ UNCHANGED <<urls, max_workers, batch_pc, collected, results, nonWebVars>>

\* lines 185-186, 191: the upload endpoints are probed and the call returns
AfterProbes(fu, answers) ==
    [fu EXCEPT
        !.result.upload_tests = test_upload_endpoint(fu.url, answers),
        !.requests = @ \o ProbeRequests(fu.url),
        !.pc = "end",
        !.state = "finished"]

ProbeStep(f) ==
    /\ future[f].state = "running"
    /\ future[f].pc = "probe"
    /\ \E answers \in ProbeAnswers :
           future' = [future EXCEPT ![f] = AfterProbes(@, answers)]
    /\ UNCHANGED <<urls, max_workers, batch_pc, collected, results, nonWebVars>>

\* lines 206-215: the result of the call, or the error record of its URL
Outcome(fu) ==
    IF fu.raised
    THEN [url |-> fu.url, error |-> "Processing error", exists |-> FALSE]
    ELSE fu.result

\* the futures kept under their URL, so that one stands for all of its URL
CollectOncePerUrl(f) ==
    /\ batch_pc = "collect"
    /\ future[f].state = "finished"
    /\ f \notin collected
    /\ results' = Append(results, Outcome(future[f]))
    /\ collected' = collected \cup {g \in DOMAIN future : future[g].url = future[f].url}
    /\ UNCHANGED <<urls, max_workers, batch_pc, future, nonWebVars>>

\* lines 205-215: as_completed yields a finished future, and the calling
\* thread appends its outcome
Collect(f) ==
    /\ batch_pc = "collect"
    /\ future[f].state = "finished"
    /\ f \notin collected
    /\ results' = Append(results, Outcome(future[f]))
    /\ collected' = collected \cup {f}
    /\ UNCHANGED <<urls, max_workers, batch_pc, future, nonWebVars>>

\* line 220: every future was yielded, the pool is shut down
ReturnResults ==
    /\ batch_pc = "collect"
    /\ collected = DOMAIN future
    /\ batch_pc' = "returned"
    /\ UNCHANGED <<urls, max_workers, future, collected, results, nonWebVars>>

NextBatch ==
    \/ Submit
    \/ \E f \in DOMAIN future : StartCall(f)
    \/ \E f \in DOMAIN future : CheckStep(f)
    \/ \E f \in DOMAIN future : FetchStep(f)
    \/ \E f \in DOMAIN future : ProbeStep(f)
    \/ \E f \in DOMAIN future : Collect(f)
    \/ ReturnResults

SpecBatch == InitBatch /\ [][NextBatch]_vars

\* every thread that can take a step takes one in the end: each request has
\* a timeout, and the calling thread waits for nothing but finished futures
SpecBatchFair == SpecBatch /\ WF_vars(NextBatch)

(***************************************************************************)
(* Properties of the runs (Spec).                                          *)
(***************************************************************************)
\* the input is absent, unreadable or lacks a required column
FatalInput ==
    \/ ~input_file.exists
    \/ ~input_file.readable
    \/ missing_columns # {}

\* C1: in clean_data and both combine_data functions, when the input file
\* does not exist, cannot be read or lacks a required column, the run stops
\* before any row is processed and the output file is never written.
C1_FatalErrorNeverWrites ==
    FatalInput =>
        /\ ~output_file.written
        /\ stats.rows_processed = 0
        /\ new_source_ips = <<>>
        /\ df \in {<<>>, input_file.rows}
        /\ pc \in {"start", "backup", "read", "check_columns", "returned"}

\* C1: a run over a workbook that has rows but lacks a required column has
\* returned after the column check
C1_Witness ==
    /\ pc = "returned"
    /\ error = "missing_columns"
    /\ Len(df) >= 1

\* a text cell that is not the string form of a flat list of strings
FlatListOfStr(r) ==
    /\ r.ok
    /\ r.val.k = "list"
    /\ \A i \in 1..Len(r.val.items) : r.val.items[i].k = "str"

Malformed(cell) ==
    /\ cell.k = "text"
    /\ cell.v # <<>>
    /\ ~FlatListOfStr(literal_eval(cell.v))

\* the cell with nothing in it when it is malformed
Blanked(cell) == IF Malformed(cell) THEN NanVal ELSE cell

\* the entries a cell holds in the written output
EntriesOf(cell) == SeqRange(parse_list_string("clean", cell, FALSE).val)

\* the entries of one side of row i that a run without the malformed cells
\* writes
ExpectedEntries(row, groups, ips) ==
    LET kept == SeqRange(parse_list_string(script, Blanked(row[ips]), FALSE).val)
        fromGroups == parse_list_string(script, Blanked(row[groups]), FALSE).val
    IN IF script = "clean"
       THEN {x \in kept \cup SeqRange(extract_ips_from_groups(fromGroups)) : NotRange(x)}
       ELSE kept \cup SeqRange(fromGroups)

\* C2: in clean_data and list-based combine_data a malformed list cell never
\* aborts the run, contributes zero entries, leaves the other cells' entries
\* as they are, and the output is still written.
C2_MalformedCellContributesNothing ==
    (script \in {"clean", "combine"} /\ ~FatalInput) =>
        /\ pc # "crashed"
        /\ output_file.written =>
              \A i \in 1..Len(input_file.rows) :
                  /\ EntriesOf(output_file.rows[i]["Source IP"]) =
                        ExpectedEntries(input_file.rows[i], "Source Groups", "Source IP")
                  /\ EntriesOf(output_file.rows[i]["Destination IP"]) =
                        ExpectedEntries(input_file.rows[i], "Destination Groups",
                                        "Destination IP")

\* C2: clean_data over the one row whose Source IP is the nested list
\* [['10.0.0.1']] has aborted with TypeError and written nothing
C2_Witness ==
    /\ script = "clean"
    /\ input_file.rows = <<RowNested>>
    /\ pc = "crashed"
    /\ error = "TypeError"
    /\ ~output_file.written

\* C10: a run that passes the file and column checks does not abort, and
\* what it writes has exactly the rows of the input, in the input order.
C10_RowCountPreserved ==
    ~FatalInput =>
        /\ pc # "crashed"
        /\ output_file.written =>
              /\ Len(output_file.rows) = Len(input_file.rows)
              /\ \A i \in 1..Len(input_file.rows) :
                    \A c \in AllColumns \ {"Source IP", "Destination IP"} :
                        output_file.rows[i][c] = input_file.rows[i][c]

\* C10: the string-based combine_data over a workbook with the required
\* columns and zero rows has aborted with IndexError and written nothing
C10_Witness ==
    /\ script = "combine_string"
    /\ ~FatalInput
    /\ input_file.rows = <<>>
    /\ pc = "crashed"
    /\ error = "IndexError"
    /\ ~output_file.written

IpColumns == {"Source IP", "Destination IP"}

\* the rows have the columns of the input and, outside cols, its values
SameOutside(rows, cols) ==
    /\ Len(rows) = Len(input_file.rows)
    /\ \A i \in 1..Len(rows) :
          /\ DOMAIN rows[i] = DOMAIN input_file.rows[i]
          /\ \A c \in DOMAIN rows[i] \ cols : rows[i][c] = input_file.rows[i][c]

C12_TwoRunsByteIdentical ==
    (script = "clean" /\ first_run.written /\ output_file.written) =>
        /\ Len(output_file.rows) = Len(first_run.rows)
        /\ \A i \in 1..Len(first_run.rows) : \A c \in IpColumns :
               output_file.rows[i][c] = first_run.rows[i][c]

\* two runs of clean_data over the one row with Source Groups
\* ['grpA', '10.0.0.1'] and Source IP ['10.0.0.2'] have written
\* ['10.0.0.1', '10.0.0.2'] and ['10.0.0.2', '10.0.0.1']
C12_Witness ==
    /\ script = "clean"
    /\ input_file.rows = <<RowPlain>>
    /\ first_run.written
    /\ output_file.written
    /\ first_run.rows[1]["Source IP"] = TextCell(ListText(<<IP1, IP2>>))
    /\ output_file.rows[1]["Source IP"] = TextCell(ListText(<<IP2, IP1>>))

\* the entries of a cell of input row i, and of the written row i
InputEntries(i, col) == parse_list_string(script, input_file.rows[i][col], FALSE).val

WrittenEntries(i, col) == parse_list_string(script, output_file.rows[i][col], FALSE).val

\* the entries of the groups of row i that is_ip_or_subnet accepts, stripped
AcceptedFromGroups(i, groups) ==
    {StrVal(StripChars(StrOf(g))) :
        g \in {x \in SeqRange(InputEntries(i, groups)) : is_ip_or_subnet(StrOf(x))}}

\* what the claim lets the written list of one side of row i hold
CleanedEntries(i, groups, ips) ==
    {x \in SeqRange(InputEntries(i, ips)) \cup AcceptedFromGroups(i, groups) :
        ~is_ip_range(StrOf(x))}

\* the written list of one side of row i holds exactly these, each once
CleanSideExact(i, groups, ips) ==
    /\ SeqRange(WrittenEntries(i, ips)) = CleanedEntries(i, groups, ips)
    /\ Len(WrittenEntries(i, ips)) = Cardinality(CleanedEntries(i, groups, ips))

\* C13: in every row clean_data writes, the Source IP list holds exactly the
\* distinct entries of the input Source IP list and of the Source Groups
\* entries is_ip_or_subnet accepts that is_ip_range rejects, each exactly
\* once; likewise the Destination IP list
C13_CleanWritesExactEntries ==
    (script = "clean" /\ output_file.written) =>
        \A i \in 1..Len(output_file.rows) :
            /\ CleanSideExact(i, "Source Groups", "Source IP")
            /\ CleanSideExact(i, "Destination Groups", "Destination IP")

\* clean_data has written two rows: the first gained the address found in its
\* groups and not the group name, the second lost its range and its duplicate
C13_Witness ==
    /\ script = "clean"
    /\ output_file.written
    /\ input_file.rows = <<RowPlain, RowRange>>
    /\ SeqRange(WrittenEntries(1, "Source IP")) = {StrVal(IP1), StrVal(IP2)}
    /\ WrittenEntries(2, "Source IP") = <<StrVal(IP2)>>

\* the positions of xs whose str() occurs at no earlier position
FirstOccurrences(xs) ==
    {i \in 1..Len(xs) : \A j \in 1..(i - 1) : StrOf(xs[j]) # StrOf(xs[i])}

\* out is xs with only its first occurrences, in the order of xs
IsFirstOccurrencesOf(out, xs) ==
    /\ Len(out) = Cardinality(FirstOccurrences(xs))
    /\ \A i \in FirstOccurrences(xs) :
           out[Cardinality({j \in FirstOccurrences(xs) : j <= i})] = xs[i]
    /\ \A i \in 1..Len(xs) : \E k \in 1..Len(out) : StrOf(out[k]) = StrOf(xs[i])

\* C15: in every row list-based combine_data writes, the Source IP list is
\* the Source Groups entries followed by the Source IP entries, in their
\* order, with only the first of the entries of equal str() kept and nothing
\* else left out; likewise the Destination IP list
C15_CombineKeepsFirstOccurrences ==
    (script = "combine" /\ output_file.written) =>
        \A i \in 1..Len(output_file.rows) :
            /\ IsFirstOccurrencesOf(WrittenEntries(i, "Source IP"),
                   InputEntries(i, "Source Groups") \o InputEntries(i, "Source IP"))
            /\ IsFirstOccurrencesOf(WrittenEntries(i, "Destination IP"),
                   InputEntries(i, "Destination Groups")
                       \o InputEntries(i, "Destination IP"))

\* list-based combine_data has written, for Source Groups ['10.0.0.2'] and
\* Source IP ['10.0.0.2', '1.1.1.1-2.2.2.2'], the list of the address once
\* and the range
C15_Witness ==
    /\ script = "combine"
    /\ output_file.written
    /\ input_file.rows = <<RowRange>>
    /\ WrittenEntries(1, "Source IP") = <<StrVal(IP2), StrVal(RANGE1)>>

\* where the backup stands at each position of a run
BackupInOrder ==
    /\ backup_file # "none" => create_backup /\ input_file.exists
    /\ ~create_backup => backup_file = "none"
    /\ pc = "start" => backup_file = "none"
    /\ (create_backup /\ input_file.exists /\ pc \notin {"start", "backup"}) =>
           backup_file # "none"
    /\ pc \in {"start", "backup"} =>
           df = <<>> /\ ~output_file.written /\ stats.rows_processed = 0

\* the step that attempts the backup
BackupStep ==
    /\ pc = "backup"
    /\ pc' = "read"
    /\ create_backup
    /\ backup_file = "none"
    /\ UNCHANGED <<df, output_file, stats>>

\* C17: with create_backup true the copy is attempted once, after the
\* input-exists check and before the input is read, a row is changed or the
\* output is written; with create_backup false no backup is ever made
C17_BackupBeforeRead ==
    /\ []BackupInOrder
    /\ [][backup_file' # backup_file => BackupStep]_vars

\* the backup was made, and the input, which has rows, is not read yet
C17_Witness ==
    /\ pc = "read"
    /\ create_backup
    /\ backup_file = "created"
    /\ Len(input_file.rows) >= 1
    /\ df = <<>>

\* the ways a run ends early that the sources have
RunEndingErrors ==
    {"not_found", "read_failed", "missing_columns", "save_failed",
     "TypeError", "ValueError", "IndexError"}

\* the run is over
RunOver == pc \in {"done", "returned", "crashed"}

\* the step at the backup position goes on to the read and touches nothing else
BackupStepGoesOn ==
    /\ pc' = "read"
    /\ error' = "none"
    /\ UNCHANGED <<df, idx, stats, new_source_ips, new_dest_ips, output_file, summary>>

\* C18: a failed copy is only noted; the run goes on to read the input, and
\* whenever it ends early the cause is one of the other failures, never the
\* backup
C18_BackupFailureNotFatal ==
    /\ [](RunOver /\ pc # "done" => error \in RunEndingErrors)
    /\ [](pc = "done" => error = "none")
    /\ []((backup_file = "failed" /\ pc = "read") => ENABLED ReadInput)
    /\ [][pc = "backup" => BackupStepGoesOn]_vars

\* the copy failed and the run still wrote every row of its input
C18_Witness ==
    /\ backup_file = "failed"
    /\ pc = "done"
    /\ output_file.written
    /\ Len(input_file.rows) >= 1
    /\ Len(output_file.rows) = Len(input_file.rows)
    /\ Len(summary) = 1

\* the counters of clean_data at each position of the run
CountersInOrder ==
    /\ pc \in {"start", "backup", "read", "check_columns"} => stats = ZeroStats
    /\ (pc = "loop" /\ idx = 1) => stats = ZeroStats
    /\ pc = "loop" => stats.rows_processed = idx - 1
    /\ pc \in {"save", "summary", "done"} =>
           stats.rows_processed = Len(input_file.rows)
    /\ (pc = "returned" /\ error = "save_failed") =>
           stats.rows_processed = Len(input_file.rows)

\* the summary is printed once, last, after a successful save, with the
\* counters as they stand
ReportedOnce ==
    /\ Len(summary) <= 1
    /\ pc = "done" => Len(summary) = 1
    /\ Len(summary) = 1 =>
           pc = "done" /\ output_file.written /\ summary[1] = stats

\* no counter goes down in the step
CountersGrow ==
    /\ stats'.rows_processed >= stats.rows_processed
    /\ stats'.source_ips_added >= stats.source_ips_added
    /\ stats'.dest_ips_added >= stats.dest_ips_added
    /\ stats'.ip_ranges_removed >= stats.ip_ranges_removed
    /\ stats'.rows_processed <= stats.rows_processed + 1

\* C19: the counters of clean_data are zero before the first row, never go
\* down, rows_processed is the number of rows gone through (all input rows
\* once the loop is over), and the final values are printed once, at the
\* end, only after the output was written
C19_CountersOfCleanData ==
    /\ [](script = "clean" => CountersInOrder /\ ReportedOnce)
    /\ [][script = "clean" => CountersGrow]_vars

\* two rows went through, every counter moved, and the summary shows it
C19_Witness ==
    /\ script = "clean"
    /\ pc = "done"
    /\ Len(input_file.rows) = 2
    /\ summary = <<stats>>
    /\ stats.rows_processed = 2
    /\ stats.source_ips_added + stats.dest_ips_added >= 1
    /\ stats.ip_ranges_removed >= 1

\* the positions of a run in the order of the function body
PositionsInOrder ==
    <<{"start"}, {"backup"}, {"read"}, {"check_columns"}, {"sample_before"},
      {"loop"}, {"update"}, {"save"}, {"summary"}, {"done", "returned", "crashed"}>>

Rank(p) == CHOOSE i \in 1..Len(PositionsInOrder) : p \in PositionsInOrder[i]

\* every step moves forward in the body, the row loop apart; none leaves an
\* ended run, and the read and the save each have one outcome or the other
OneAttemptEach ==
    /\ ~RunOver
    /\ \/ Rank(pc') > Rank(pc)
       \/ pc = "loop" /\ pc' = "loop" /\ idx' = idx + 1
    /\ pc = "read" =>
           \/ pc' = "check_columns" /\ error' = "none"
           \/ pc' = "returned" /\ error' = "read_failed"
    /\ pc = "save" =>
           \/ pc' = "summary" /\ error' = "none" /\ output_file'.written
           \/ pc' = "returned" /\ error' = "save_failed"

\* what a run looks like after a failed read or a failed write
EndedByReadOrWrite ==
    /\ error \in {"read_failed", "save_failed"} =>
           pc = "returned" /\ summary = <<>> /\ ~output_file.written
    /\ error = "read_failed" => df = <<>> /\ idx = 1 /\ stats.rows_processed = 0
    /\ (pc = "returned" /\ ~input_file.readable /\ input_file.exists) =>
           error = "read_failed"

\* C20: the read and the write are each attempted at most once in a run; when
\* either fails the run is over at once: no later step, no retry, and no
\* summary
C20_NoRetryNoSummaryAfterFailure ==
    /\ []EndedByReadOrWrite
    /\ [][OneAttemptEach]_vars

\* every row went through, the write failed, and the run ended without summary
C20_Witness ==
    /\ pc = "returned"
    /\ error = "save_failed"
    /\ Len(df) >= 1
    /\ idx = Len(df) + 1
    /\ summary = <<>>
    /\ ~output_file.written

\* the entries row i gained on one side: those taken from its groups that its
\* input list did not hold
NewlyAdded(i, groups, ips) ==
    Cardinality(AcceptedFromGroups(i, groups) \ SeqRange(InputEntries(i, ips)))

RECURSIVE AddedUpTo(_, _, _)
AddedUpTo(n, groups, ips) ==
    IF n = 0 THEN 0
    ELSE AddedUpTo(n - 1, groups, ips) + NewlyAdded(n, groups, ips)

\* C25: the 'Source IPs added' that clean_data reports is the number of
\* entries the run added to 'Source IP' cells: over all rows, the entries
\* taken from Source Groups that the row's input Source IP list did not
\* hold, each counted once; likewise 'Destination IPs added'
C25_AddedCountsWhatWasAdded ==
    (script = "clean" /\ Len(summary) = 1) =>
        /\ summary[1].source_ips_added
               = AddedUpTo(Len(input_file.rows), "Source Groups", "Source IP")
        /\ summary[1].dest_ips_added
               = AddedUpTo(Len(input_file.rows), "Destination Groups", "Destination IP")

\* the one row had its group address in Source IP already: the written list
\* gained nothing, and one added address is reported
C25_Witness ==
    /\ script = "clean"
    /\ pc = "done"
    /\ input_file.rows = <<RowRange>>
    /\ WrittenEntries(1, "Source IP") = <<StrVal(IP2)>>
    /\ NewlyAdded(1, "Source Groups", "Source IP") = 0
    /\ summary[1].source_ips_added = 1

GroupColumns == {"Source Groups", "Destination Groups"}

\* every cell of the written rows outside the two IP columns is the cell of
\* the input row
OtherCellsAsRead ==
    output_file.written =>
        \A i \in 1..Len(output_file.rows) :
            /\ i <= Len(input_file.rows)
            /\ GroupColumns \subseteq DOMAIN output_file.rows[i]
            /\ \A c \in DOMAIN input_file.rows[i] \ IpColumns :
                   /\ c \in DOMAIN output_file.rows[i]
                   /\ output_file.rows[i][c] = input_file.rows[i][c]

\* a step after the read writes no cell of the dataframe outside the two IP
\* columns, and inside the row loop no cell outside the row it is at
WritesIpCellsOnly ==
    /\ Len(df') = Len(df)
    /\ \A i \in 1..Len(df) :
           /\ \A c \in DOMAIN df[i] \ IpColumns :
                  c \in DOMAIN df'[i] /\ df'[i][c] = df[i][c]
           /\ (pc = "loop" /\ i # idx) => df'[i] = df[i]

\* C26: clean_data and both combine_data functions change only 'Source IP'
\* and 'Destination IP' cells: 'Source Groups', 'Destination Groups' and
\* every other column have their input values in every row of the output
C26_OnlyIpCellsChange ==
    /\ []OtherCellsAsRead
    /\ [][pc # "read" => WritesIpCellsOnly]_vars

\* string-based combine_data has written two rows whose Source IP cells are
\* new and whose groups and other cells are those of the input
C26_Witness ==
    /\ script = "combine_string"
    /\ output_file.written
    /\ Len(output_file.rows) = 2
    /\ \A i \in 1..2 :
           /\ output_file.rows[i]["Source IP"] # input_file.rows[i]["Source IP"]
           /\ \A c \in AllColumns \ IpColumns :
                  output_file.rows[i][c] = input_file.rows[i][c]

\* the second run wrote in row i, column c, what the first had written
SameCellAgain(i, c) == output_file.rows[i][c] = first_run.rows[i][c]

\* the text the first run wrote in row i, column c, holds a name that is no
\* Python literal (inf)
WroteNoLiteral(i, c) ==
    \E k \in 1..Len(first_run.rows[i][c].v) : first_run.rows[i][c].v[k].t = "word"

\* list-based combine_data ran over a workbook and then over its own output
CombinedTwice ==
    script = "combine" /\ first_run.written /\ output_file.written

\* C27 as claimed: list-based combine_data applied to its own output writes
\* the same 'Source IP' and 'Destination IP' lists, entry for entry and in
\* the same order, in every row
C27_CombineIsIdempotent ==
    CombinedTwice =>
        /\ Len(output_file.rows) = Len(first_run.rows)
        /\ \A i \in 1..Len(first_run.rows) : \A c \in IpColumns : SameCellAgain(i, c)

\* where C27 does hold: the second run writes the same list wherever the list
\* the first run wrote holds only entries that str() writes as Python literals
C27_IdempotentOnLiterals ==
    CombinedTwice =>
        /\ Len(output_file.rows) = Len(first_run.rows)
        /\ \A i \in 1..Len(first_run.rows) : \A c \in IpColumns :
               ~WroteNoLiteral(i, c) => SameCellAgain(i, c)

\* the first run wrote ['grpA', inf] as the Source IP of the row that began
\* with [1e999], and the run over that output wrote ['grpA']
C27_Witness ==
    /\ CombinedTwice
    /\ Len(first_run.rows) = 1
    /\ first_run.rows[1]["Source Groups"] = RowOverflow["Source Groups"]
    /\ first_run.rows[1]["Source IP"] = ListCell(<<StrVal(GRP), InfVal>>)
    /\ output_file.rows[1]["Source IP"] = ListCell(<<StrVal(GRP)>>)
    /\ SameCellAgain(1, "Destination IP")

(***************************************************************************)
(* Properties of parse_list_string (SpecParse).                            *)
(***************************************************************************)
\* C3: parse_list_string is total: for every cell value it returns a list
\* and never raises, and an actual list value is returned as is.
C3_ParseListStringTotal ==
    /\ pc # "raised"
    /\ (pc = "returned" /\ arg.k = "list") => result.val = arg.items

\* C3: parse_list_string of the actual list ['10.0.0.1', 'grpA'] has raised
C3_Witness ==
    /\ arg = ListVal(<<StrVal(IP1), StrVal(GRP)>>)
    /\ pc = "raised"

IsScalarText(ts) ==
    /\ Len(StripText(ts)) = 1
    /\ StripText(ts)[1].t \in {"str", "num"}

ScalarOf(ts) ==
    IF StripText(ts)[1].t = "str"
    THEN StrVal(StripText(ts)[1].v)
    ELSE NumberOf(StripText(ts)[1].v)

HasWord(ts) == \E i \in 1..Len(ts) : ts[i].t = "word"

IndicesBuilt == script = "pipeline" /\ pc = "enrich" /\ row_i = 1 /\ side = "source" /\ tok_i = 1

Finished == script = "pipeline" /\ pc = "done"

\* the subnet tables, as loaded, that have a row with the key
SubnetTablesHolding(key) ==
    {i \in 1..Len(reference.subnets) :
        \E j \in 1..Len(reference.subnets[i]) :
            StripChars(reference.subnets[i][j].key) = key}

\* the attribute sets the rows of table i give the key
AttrsIn(i, key) ==
    {reference.subnets[i][j].attrs :
        j \in {n \in 1..Len(reference.subnets[i]) :
                 StripChars(reference.subnets[i][n].key) = key}}

InIpTable(key) ==
    \E j \in 1..Len(reference.ip) : StripChars(reference.ip[j].key) = key

\* the tokens of the list of a side of a row
TokensOf(r, s) == {rules[r][s][k] : k \in 1..Len(rules[r][s])}

SideNames == {"source", "destination"}

\* the class of each token the lists are drawn from
TokenClass == [token \in TokenSamples |-> classify(token)]

\* C5: a subnet key is answered by the first table, in priority order, that
\* holds it, with that table's attributes and that table reported as the
\* match, and by NotFound only if no table holds it; the finished rows carry
\* the entry of that table
C5_SubnetPriorityOrder ==
    /\ IndicesBuilt =>
        \A token \in TokenSamples :
            TokenClass[token] = "subnet" =>
                /\ lookup(index, token, "subnet").found
                       <=> SubnetTablesHolding(StripChars(token)) # {}
                /\ \A i \in SubnetTablesHolding(StripChars(token)) :
                       (\A j \in SubnetTablesHolding(StripChars(token)) : i <= j) =>
                           /\ lookup(index, token, "subnet").file = SubnetTableName(i)
                           /\ lookup(index, token, "subnet").attrs
                                  \in AttrsIn(i, StripChars(token))
    /\ Finished =>
        \A r \in 1..Len(rules) : \A s \in SideNames : \A token \in TokensOf(r, s) :
            TokenClass[token] = "subnet" =>
                \A i \in SubnetTablesHolding(StripChars(token)) :
                    (\A j \in SubnetTablesHolding(StripChars(token)) : i <= j) =>
                        /\ token \in DOMAIN enriched[r][s]
                        /\ enriched[r][s][token].file = SubnetTableName(i)

\* NETA is in T2 and T3 and not in T1, and the finished row reports T2
C5_Witness ==
    /\ Finished
    /\ SubnetTablesHolding(NETA) = {2, 3}
    /\ NETA \in DOMAIN enriched[1].source
    /\ enriched[1].source[NETA].file = "T2"
    /\ enriched[1].source[NETA].environment = "T2"

Addresses == {ADDR1, ADDR2, ADDR6, <<" ">> \o ADDR1}

\* the host route of an address: a/32, or a/128 for IPv6
HostRouteOf(a) ==
    IF IsIPv4(StripChars(a)) THEN a \o <<"/", "3", "2">> ELSE a \o <<"/", "1", "2", "8">>

HostRoute == [a \in Addresses \cup TokenSamples |-> HostRouteOf(a)]

AddressClass == [a \in Addresses |-> classify(a)]

HostRouteClass == [a \in Addresses |-> classify(HostRoute[a])]

\* the Entry Analyses enrich produces for a token of a class: one, or none
\* when it is unresolved
AnalysisOf(token, class) ==
    IF lookup(index, token, class).found
    THEN <<EntryAnalysis(lookup(index, token, class), name_index)>>
    ELSE <<>>

\* C6: the Entry Analysis of a host-route token, a/32 or a/128, is that of
\* the bare address a, whatever the single-IP table; in a finished list that
\* holds both, both are resolved to equal entries or neither is resolved
C6_HostRouteResolvesAsBareAddress ==
    /\ IndicesBuilt =>
        \A a \in Addresses :
            /\ AddressClass[a] = "single-ip"
            /\ HostRouteClass[a] = "host-route"
            /\ AnalysisOf(HostRoute[a], HostRouteClass[a]) = AnalysisOf(a, AddressClass[a])
    /\ Finished =>
        \A r \in 1..Len(rules) : \A s \in SideNames : \A a \in TokensOf(r, s) :
            TokenClass[a] = "single-ip" /\ HostRoute[a] \in TokensOf(r, s) =>
                /\ a \in DOMAIN enriched[r][s] <=> HostRoute[a] \in DOMAIN enriched[r][s]
                /\ a \in DOMAIN enriched[r][s] =>
                       enriched[r][s][a] = enriched[r][s][HostRoute[a]]

\* a finished list that holds 10.1.1.1 and 10.1.1.1/32, both resolved by the
\* single-IP table, with the identifier's name
C6_Witness ==
    /\ Finished
    /\ InIpTable(ADDR1)
    /\ ADDR1 \in DOMAIN enriched[1].source
    /\ HostRoute[ADDR1] \in DOMAIN enriched[1].source
    /\ enriched[1].source[HostRoute[ADDR1]].file = IpTableName
    /\ enriched[1].source[HostRoute[ADDR1]] = enriched[1].source[ADDR1]

BlankToken(cs) == \A i \in 1..Len(cs) : cs[i] \in WhiteChars

HasSlash(cs) == \E i \in 1..Len(cs) : cs[i] = "/"

\* C7: classify returns, for every string, one of the four classes and never
\* raises; the class is a function of the string alone, agrees with the
\* presence of "/", is unparseable for an empty or blank string, and the call
\* changes nothing else
C7_ClassifierTotalAndPure ==
    script = "classify" /\ pc # "call" =>
        /\ pc = "returned"
        /\ result \in Classes
        /\ result = classify(arg)
        /\ result = "single-ip" => ~HasSlash(arg)
        /\ result \in {"host-route", "subnet"} => HasSlash(arg)
        /\ BlankToken(arg) => result = "unparseable"
        /\ RunIdle
        /\ PipeIdle
        /\ WebIdle

\* classify has returned unparseable for the empty string
C7_Witness ==
    /\ script = "classify"
    /\ pc = "returned"
    /\ arg = <<>>
    /\ result = "unparseable"

\* no reference table, as loaded, has the token as a key, as written or
\* without its host suffix
AbsentFromTables(token) ==
    /\ ~InIpTable(StripChars(token))
    /\ ~InIpTable(StripHostSuffix(token))
    /\ SubnetTablesHolding(StripChars(token)) = {}

\* the step resolves one token of the list
ResolvesToken ==
    /\ script = "pipeline"
    /\ pc = "enrich"
    /\ tok_i' = tok_i + 1

\* C8: the step that resolves a valid token absent from every reference
\* table leaves the AnalysisMap without that token as a key and adds exactly
\* one to the unmatched counter
C8_UnresolvedOmittedAndCounted ==
    [][ResolvesToken /\ classify(Token) # "unparseable" /\ AbsentFromTables(Token) =>
            /\ Token \notin DOMAIN analysis'
            /\ run_stats'.unmatched = run_stats.unmatched + 1
            /\ run_stats'.found = run_stats.found]_vars

\* the finished first row had the valid address 10.1.1.2, which no table has:
\* its map has no such key and the counter is positive
C8_Witness ==
    /\ Finished
    /\ ADDR2 \in TokensOf(1, "source")
    /\ AbsentFromTables(ADDR2)
    /\ ADDR2 \notin DOMAIN enriched[1].source
    /\ run_stats.unmatched >= 1

AddressPart(token) ==
    SubSeq(StripChars(token), 1, IndexOfChar(StripChars(token), "/") - 1)

\* C9: a token of class subnet is never answered by the single-IP table: in a
\* finished list its entry, if any, names a subnet table, and it has no entry
\* when no subnet table holds it, also when the single-IP table holds its
\* address part
C9_SubnetNeverConsultsIpTable ==
    Finished =>
        \A r \in 1..Len(rules) : \A s \in SideNames : \A token \in TokensOf(r, s) :
            TokenClass[token] = "subnet" =>
                /\ token \in DOMAIN enriched[r][s] =>
                       enriched[r][s][token].file # IpTableName
                /\ SubnetTablesHolding(StripChars(token)) = {} =>
                       token \notin DOMAIN enriched[r][s]

\* 10.1.1.1/24 was in the finished list, the single-IP table holds 10.1.1.1,
\* and the token is unresolved
C9_Witness ==
    /\ Finished
    /\ ADDR1 \o <<"/", "2", "4">> \in TokensOf(1, "source")
    /\ classify(ADDR1 \o <<"/", "2", "4">>) = "subnet"
    /\ InIpTable(AddressPart(ADDR1 \o <<"/", "2", "4">>))
    /\ ADDR1 \o <<"/", "2", "4">> \notin DOMAIN enriched[1].source

(***************************************************************************)
(* Properties of is_ip_or_subnet (SpecIsIp).                               *)
(***************************************************************************)
\* s is a valid IPv4 address, or one followed by / and a prefix of 0..32
ValidAddressOrNetwork(s) ==
    \/ IsIPv4(s)
    \/ /\ IndexOfChar(s, "/") # 0
       /\ IsIPv4(SubSeq(s, 1, IndexOfChar(s, "/") - 1))
       /\ IsPrefixLen(SubSeq(s, IndexOfChar(s, "/") + 1, Len(s)), MaxPrefixV4)

\* C14: is_ip_or_subnet returns, and returns True only for a valid IPv4
\* address or CIDR network: every octet in 0..255 and the prefix in 0..32
C14_AcceptsOnlyValidAddresses ==
    (script = "is_ip_or_subnet" /\ pc # "call") =>
        /\ pc = "returned"
        /\ result \in BOOLEAN
        /\ result => ValidAddressOrNetwork(StripChars(arg))

\* is_ip_or_subnet has returned True for 256.1.1.1
C14_Witness ==
    /\ script = "is_ip_or_subnet"
    /\ pc = "returned"
    /\ arg = <<"2", "5", "6", ".", "1", ".", "1", ".", "1">>
    /\ result = TRUE

(***************************************************************************)
(* Properties of combine_list_strings (SpecCombineStrings).                *)
(***************************************************************************)
\* the operand is NaN, '', 'nan' or '[]'
EmptyOperand(c) == IsNa(c) \/ c.v \in EmptyTexts

\* the items of the list an operand is the string form of
OperandItems(c) == IF EmptyOperand(c) THEN <<>> ELSE literal_eval(c.v).val.items

\* C16: combine_list_strings of two string forms of lists is the string form
\* of the list of all items of the first followed by all items of the
\* second, duplicates kept, and an empty operand (NaN, '', 'nan', '[]')
\* yields the other operand, '[]' when both are empty
C16_CombineIsConcatenation ==
    (script = "combine_list_strings" /\ pc = "returned") =>
        /\ literal_eval(result).ok
        /\ literal_eval(result).val.k = "list"
        /\ literal_eval(result).val.items = OperandItems(arg[1]) \o OperandItems(arg[2])
        /\ EmptyOperand(arg[1]) /\ EmptyOperand(arg[2]) => result = <<LB, RB>>
        /\ EmptyOperand(arg[1]) /\ ~EmptyOperand(arg[2]) => result = arg[2].v
        /\ ~EmptyOperand(arg[1]) /\ EmptyOperand(arg[2]) => result = arg[1].v

\* combine_list_strings("[['10.0.0.2']]", "['10.0.0.1']") has returned
\* "[['10.0.0.2', '10.0.0.1']", which is the string form of no list
C16_Witness ==
    /\ script = "combine_list_strings"
    /\ pc = "returned"
    /\ arg = <<TextCell(ReprLex(ListVal(<<ListVal(<<StrVal(IP2)>>)>>))),
               TextCell(ListText(<<IP1>>))>>
    /\ result = <<LB, LB, StrLx(IP2), COMMA, WS, StrLx(IP1), RB>>
    /\ ~literal_eval(result).ok

\* nothing of the run has begun while the indices are not built
NothingBeforeBuild ==
    pc = "build" =>
        /\ row_i = 1 /\ side = "source" /\ tok_i = 1
        /\ analysis = <<>> /\ enriched = <<>> /\ run_stats = ZeroRunStats

\* the build step makes both indices, whole, from the reference tables
BuiltWhole ==
    /\ index' = build(reference)
    /\ name_index' = build_names(reference.names)
    /\ pc' = "enrich"

\* a step of the enrichment leaves the indices, the tables, the rule records
\* and the analysis of every row but the current one as they are
EnrichFrame ==
    /\ UNCHANGED <<index, name_index, reference, rules>>
    /\ Len(enriched') = Len(enriched)
    /\ \A i \in 1..Len(enriched) : i # row_i => enriched'[i] = enriched[i]
    /\ \A i \in 1..Len(enriched) :
           enriched'[i] # enriched[i] =>
               \E s \in SideNames : enriched' = [enriched EXCEPT ![i][s] = analysis]

\* C21: the Lookup Index and the Identifier-Name Index are built whole before
\* the first row is processed and never change afterwards; enriching a row
\* changes no other row
C21_IndicesReadOnly ==
    /\ []NothingBeforeBuild
    /\ [][pc = "build" => BuiltWhole]_vars
    /\ [][pc # "build" => EnrichFrame]_vars

\* the second row is being enriched, the first holds an analysis that found
\* something, and the index holds entries
C21_Witness ==
    /\ pc = "enrich"
    /\ row_i = 2
    /\ tok_i = 2
    /\ Len(rules) = 2
    /\ DOMAIN enriched[1]["source"] # {}
    /\ DOMAIN analysis # {}
    /\ DOMAIN index.ip # {}

(***************************************************************************)
(* Properties of test_urls_batch (SpecBatch, SpecBatchFair).               *)
(***************************************************************************)
\* how many entries of a list of records carry the URL
CountUrl(rs, u) == Cardinality({i \in 1..Len(rs) : rs[i].url = u})
CountSubmitted(u) == Cardinality({i \in 1..Len(urls) : urls[i] = u})

\* the record test_urls_batch makes for a call that raised
IsErrorRecord(r) ==
    /\ DOMAIN r = {"url", "error", "exists"}
    /\ r.exists = FALSE

\* the results returned: one for each submitted URL, duplicates counted, the
\* calls that raised as error records
OneResultPerUrl ==
    /\ Len(results) = Cardinality(collected)
    /\ \A i \in 1..Len(results) : \E f \in collected : results[i].url = urls[f]
    /\ batch_pc = "returned" =>
           /\ Len(results) = Len(urls)
           /\ \A u \in UrlSamples : CountUrl(results, u) = CountSubmitted(u)
    /\ \A f \in collected :
           future[f].raised =>
               \E i \in 1..Len(results) :
                   results[i].url = urls[f] /\ IsErrorRecord(results[i])
    /\ \A i \in 1..Len(results) : ~results[i].url.is_str => IsErrorRecord(results[i])

\* a step that changes the results list is a step of the calling thread: it
\* appends one entry while collecting, and no call moves in it
OnlyCollectorAppends ==
    results' # results =>
        /\ batch_pc = "collect"
        /\ future' = future
        /\ Len(results') = Len(results) + 1
        /\ SubSeq(results', 1, Len(results)) = results

\* C22: for any list of URLs, any pool size and any order of completion,
\* test_urls_batch returns, with one result for each submitted URL carrying
\* that URL, an error record with exists false for a call that raised, and
\* only the calling thread appends to the results
C22_BatchReturnsOneResultPerUrl ==
    /\ []OneResultPerUrl
    /\ [][OnlyCollectorAppends]_vars
    /\ <>(batch_pc = "returned")

\* two workers, the second call raised and was collected first, and the
\* first call went through all its probes
C22_Witness ==
    /\ batch_pc = "returned"
    /\ max_workers = 2
    /\ urls = <<FULL, NotText>>
    /\ Len(results) = 2
    /\ results[1].url = NotText
    /\ IsErrorRecord(results[1])
    /\ results[2].url = FULL
    /\ Len(results[2].upload_tests) = Len(upload_paths)

\* the calls that have returned a result for a URL given as text
ReturnedCalls ==
    {f \in DOMAIN future :
        future[f].state = "finished" /\ ~future[f].raised /\ future[f].url.is_str}

\* the existence check of the call found its URL with status code 200
FoundWith200(f) ==
    future[f].result.exists /\ future[f].result.status_code = 200

\* the page request and the probes of a call went to base
ScannedAt(f, base) ==
    /\ Len(future[f].requests) >= 2
    /\ future[f].requests[2] = [method |-> "GET", url |-> base]
    /\ future[f].result.scan_error # "MissingSchema"
    /\ future[f].result.scan_error = "none" =>
           /\ Len(future[f].result.upload_tests) = Len(upload_paths)
           /\ \A i \in 1..Len(upload_paths) :
                  future[f].result.upload_tests[i].endpoint
                      = urljoin(base, upload_paths[i])

\* C23: a URL given without a scheme, checked as 'https://www.' + url and
\* found with status 200, has its page fetched and its upload endpoints
\* probed at that same normalized URL, so the result holds the scan and the
\* probes, not a scan_error
C23_ScansTheCheckedUrl ==
    \A f \in ReturnedCalls :
        (~StartsWithScheme(future[f].url) /\ FoundWith200(f)) =>
            ScannedAt(f, WithProtocol(future[f].url))

\* example.com was found at https://www.example.com with status 200, and the
\* call returned a scan_error, nothing scanned and nothing probed
C23_Witness ==
    \E f \in ReturnedCalls :
        /\ future[f].url = BARE
        /\ FoundWith200(f)
        /\ future[f].requests = <<[method |-> "GET", url |-> WithProtocol(BARE)]>>
        /\ future[f].result.scan_error = "MissingSchema"
        /\ future[f].result.upload_indicators = <<>>
        /\ future[f].result.upload_tests = <<>>

\* the POST requests a call has sent
PostsOf(f) == SelectSeq(future[f].requests, LAMBDA r : r.method = "POST")

\* a call that has sent a POST, scanned a page or is about to has found its
\* URL with status 200 by a GET sent before; any other call has sent no POST
\* and holds two empty lists
ProbesOnlyAfter200 ==
    \A f \in DOMAIN future :
        /\ future[f].pc \in {"fetch", "probe"} => FoundWith200(f)
        /\ FoundWith200(f) =>
               /\ Len(future[f].requests) >= 1
               /\ future[f].requests[1]
                      = [method |-> "GET", url |-> WithProtocol(future[f].url)]
        /\ ~FoundWith200(f) =>
               /\ PostsOf(f) = <<>>
               /\ future[f].result.upload_indicators = <<>>
               /\ future[f].result.upload_tests = <<>>
               /\ Len(future[f].requests) <= 1

\* a step in which a call sends a POST, or fills one of its lists, starts
\* after its existence check found status 200
ProbeStepsAfterCheck ==
    \A f \in DOMAIN future :
        (\/ future'[f].requests # future[f].requests /\ future[f].pc # "check"
         \/ future'[f].result.upload_indicators # future[f].result.upload_indicators
         \/ future'[f].result.upload_tests # future[f].result.upload_tests)
            => future[f].pc \in {"fetch", "probe"} /\ FoundWith200(f)

\* C24: comprehensive_url_test scans for upload forms and sends the POST
\* probes only after the existence check succeeded with status 200; for a
\* URL that does not exist or answers otherwise no POST is sent and
\* upload_indicators and upload_tests are empty
C24_ProbesOnlyAfter200 ==
    /\ []ProbesOnlyAfter200
    /\ [][batch_pc # "submit" => ProbeStepsAfterCheck]_vars

\* a URL answered 404: the call returned after its one GET, nothing posted
C24_Witness ==
    \E f \in ReturnedCalls :
        /\ future[f].url = FULL
        /\ future[f].result.exists
        /\ future[f].result.status_code = 404
        /\ future[f].requests = <<[method |-> "GET", url |-> FULL]>>
        /\ future[f].result.upload_indicators = <<>>
        /\ future[f].result.upload_tests = <<>>

====
